---- MODULE Spec2Model ----
(***************************************************************************)
(* Verification model of warehouse-path-bench.                             *)
(*                                                                         *)
(* Part A: the discrete-event kernel both executors run on (simpy's event  *)
(*         queue and capacity-limited Resource, as the code uses them).    *)
(* Part B: sim/collision_tracker.py, the pure collision model              *)
(*         (simulate_multi_bot_execution), specification SpecCollision.    *)
(* Part C: module3_simulation.py, the replanning variant                   *)
(*         (run_simulation_scenario), specification SpecReplan.            *)
(* Part D: the tour solvers of algos/ (held_karp, nearest_neighbor,        *)
(*         two_opt, nn_2opt, hybrid_nn_2opt, ga_tsp, alo_tsp) and the grid *)
(*         searches of sim/routing.py (astar, dijkstra).                   *)
(*                                                                         *)
(* Simulated time is counted in units of step_time: every robot event of   *)
(* either executor falls on a whole multiple of step_time.                 *)
(***************************************************************************)
EXTENDS Integers, Sequences, FiniteSets, TLC

VARIABLES
    now,          \* env.now
    queue,        \* the environment's event queue, in processing order
    users,        \* per cell: Resource.users (the requests holding the cell)
    put_queue,    \* per cell: Resource.put_queue (the requests waiting)
    phase,        \* "running" while env.run() executes, "returned" afterwards
    bot_tours,    \* collision model: the tours handed to the simulation
    proc,         \* collision model: each bot's position in follow_path_with_tracking
    stats,        \* collision model: the CollisionStats object
    log,          \* collision model, history: each cell request made and when it was answered
    orders,       \* replanning variant: the orders (start and goal node of each)
    blocked,      \* replanning variant: GridSim.blocked
    plan,         \* replanning variant: each order's current plan (launch_order's "plan")
    rproc,        \* replanning variant: each order's position in robot_process
    monitor,      \* replanning variant: each order's position in launch_order.monitor
    kpis,         \* replanning variant: each order's OrderKPIs object
    kpi_records,  \* replanning variant: the list of KPI records
    hist,         \* replanning variant, history: per order, stops on a blocked cell, cells
                  \* acquired, robot processes begun and what monitor did after each stop
    nblocks,      \* replanning variant, history: block_cell calls so far
    inp,          \* solvers: the arguments of the calls under study
    out,          \* solvers: what each call made so far returned
    ga,           \* solvers: the state of a running ga_tsp call
    alo,          \* solvers: the state of a running alo_tsp call (the AntLionOptimization object)
    cache,        \* distances: the cache dict of a distance function or DistanceService
    grid_obj,     \* grid: the Grid object whose methods are called
    opt,          \* local search: the locals of a running two_opt call
    exec          \* simpy_exec: the process of simulate_execution and its position

kernelVars == <<now, queue, users, put_queue, phase>>
colVars == <<bot_tours, proc, stats, log>>
repVars == <<orders, blocked, plan, rproc, monitor, kpis, kpi_records, hist, nblocks>>
solVars == <<inp, out, ga, alo>>
objVars == <<cache, grid_obj, opt, exec>>
vars == <<kernelVars, colVars, repVars, solVars, objVars>>

\* what each specification leaves alone
notCollision == <<repVars, solVars, objVars>>
notReplan == <<colVars, solVars, objVars>>
notSolvers == <<kernelVars, colVars, repVars, objVars>>

(***************************************************************************)
(* Bounds of the model.                                                    *)
(***************************************************************************)
NumBots == 2          \* bots handed to simulate_multi_bot_execution
NumCells == 2         \* free cells of the grid
MaxInput == 6         \* size of bot_tours: its paths plus their cells, all tours together

(***************************************************************************)
(* Program constants.                                                      *)
(***************************************************************************)
Capacity == 1         \* build_cell_resources(env, grid, cap=1)
URGENT == 0           \* simpy priority of an Initialize event
NORMAL == 1           \* simpy priority of every other event
StepTime == 1         \* one step_time, the unit of simulated time

Bots == 0 .. (NumBots - 1)
\* grid.free_cells(): the cells that get a Resource
Cells == 1 .. NumCells
\* 0 stands for a position with no Resource (an obstacle or off the grid)
Pos == 0 .. NumCells
NoCell == 0 - 1
NoTime == 0 - 1

Max(a, b) == IF a >= b THEN a ELSE b

(***************************************************************************)
(* Part A.  The event queue and the Resource.                              *)
(***************************************************************************)

Event(t, prio, kind, who) == [t |-> t, prio |-> prio, kind |-> kind, who |-> who]

\* env.schedule: the queue is ordered by (time, priority, insertion order)
Before(e, f) == e.t < f.t \/ (e.t = f.t /\ e.prio <= f.prio)

Schedule(q, e) ==
    LET n == Cardinality({i \in 1..Len(q) : Before(q[i], e)})
    IN  SubSeq(q, 1, n) \o <<e>> \o SubSeq(q, n + 1, Len(q))

Remove(s, x) == SelectSeq(s, LAMBDA y : y # x)

\* Resource._do_put's test: the head of the put queue is granted only while
\* the cell has room
HasRoomOff(u) == Len(u) <= Capacity
HasRoom(u) == Len(u) < Capacity

\* BaseResource._trigger_put: only the head of the put queue is tried
\* (Resource._do_put returns None, which ends the loop). The state is the
\* record [users, put_queue, queue] of the three variables it touches.
TriggerPut(st, c, t) ==
    IF st.put_queue[c] # <<>> /\ HasRoom(st.users[c])
    THEN LET b == Head(st.put_queue[c])
         IN  [users     |-> [st.users EXCEPT ![c] = Append(@, b)],
              put_queue |-> [st.put_queue EXCEPT ![c] = Tail(@)],
              queue     |-> Schedule(st.queue, Event(t, NORMAL, "Granted", b))]
    ELSE st

\* Resource.request(): the request joins the put queue, then _trigger_put
Request(st, b, c, t) ==
    TriggerPut([st EXCEPT !.put_queue[c] = Append(@, b)], c, t)

\* Resource.release(req): the request leaves users at once (a request that
\* is not a user is ignored); the Release event is scheduled, and its
\* callback _trigger_put runs when that event is processed
Release(st, b, c, t) ==
    [st EXCEPT !.users[c] = Remove(@, b),
               !.queue = Schedule(@, Event(t, NORMAL, "Release", c))]

Kernel == [users |-> users, put_queue |-> put_queue, queue |-> Tail(queue)]

SetKernel(st) ==
    /\ users' = st.users
    /\ put_queue' = st.put_queue
    /\ queue' = st.queue

HeadIs(kind) == phase = "running" /\ queue # <<>> /\ Head(queue).kind = kind


(***************************************************************************)
(* Part B.  sim/collision_tracker.py                                       *)
(***************************************************************************)

\* The inputs: bot_tours is a list of tours, a tour a list of paths, a path a
\* list of positions. A path of m positions has size m + 1; PathsOf(k) are
\* the paths of size k and ToursOf(n) the tours whose paths have size n
\* together.
PathsOf(k) == [1..(k - 1) -> Pos]

RECURSIVE ToursOf(_)
ToursOf(n) ==
    IF n = 0 THEN {<<>>}
    ELSE UNION {{<<p>> \o t : p \in PathsOf(k), t \in ToursOf(n - k)} : k \in 1..n}

ToursTable == [n \in 0..MaxInput |-> ToursOf(n)]

\* "for nxt in path[1:]: if nxt not in cells: continue": the index of the
\* next cell after index k that has a Resource, 0 when the path has none
NextValid(path, k) ==
    LET later == {j \in (k + 1)..Len(path) : path[j] \in Cells}
    IN  IF later = {} THEN 0 ELSE CHOOSE j \in later : \A i \in later : j <= i

\* the block under "if wait_duration > 0" (both copies of it are the same)
RecordWaitNeg(s, b, c, w) ==
    IF w > 0
    THEN [s EXCEPT !.total_collisions = @ + 1,
                   !.total_wait_time = @ - w,
                   !.wait_events = Append(@, w),
                   !.bot_wait_times[b] = @ + w,
                   !.collision_locations = Append(@, c),
                   !.max_wait_time = IF w > @ THEN w ELSE @]
    ELSE s
RecordWaitLong(s, b, c, w) ==
    IF w > StepTime
    THEN [s EXCEPT !.total_collisions = @ + 1,
                   !.total_wait_time = @ + w,
                   !.wait_events = Append(@, w),
                   !.bot_wait_times[b] = @ + w,
                   !.collision_locations = Append(@, c),
                   !.max_wait_time = IF w > @ THEN w ELSE @]
    ELSE s
RecordWaitNoLoc(s, b, c, w) ==
    IF w > 0
    THEN [s EXCEPT !.total_collisions = @ + 1,
                   !.total_wait_time = @ + w,
                   !.wait_events = Append(@, w),
                   !.bot_wait_times[b] = @ + w,
                   !.max_wait_time = IF w > @ THEN w ELSE @]
    ELSE s
RecordWait(s, b, c, w) ==
    IF w > 0
    THEN [s EXCEPT !.total_collisions = @ + 1,
                   !.total_wait_time = @ + w,
                   !.wait_events = Append(@, w),
                   !.bot_wait_times[b] = @ + w,
                   !.collision_locations = Append(@, c),
                   !.max_wait_time = IF w > @ THEN w ELSE @]
    ELSE s

\* lines 85-89: after the travel time the bot releases its current cell and
\* then requests the next one
MoveStepNoRelease(st, b, cur, nxt, t) == Request(st, b, nxt, t)
MoveStep(st, b, cur, nxt, t) == Request(Release(st, b, cur, t), b, nxt, t)

\* whether cell c is held by a bot other than b
HeldByOther(u, b, c) == \E i \in 1..Len(u[c]) : u[c][i] # b

\* "for bot_id, tour_paths in enumerate(bot_tours): if tour_paths:
\* env.process(bot_process(...))": one Initialize event per bot with a tour
RECURSIVE StartBots(_, _)
StartBots(tours, b) ==
    IF b = NumBots THEN <<>>
    ELSE (IF tours[b] # <<>> THEN <<Event(0, URGENT, "BotInit", b)>> ELSE <<>>)
         \o StartBots(tours, b + 1)

\* the solvers' variables while a simulation runs
IdleObjects ==
    /\ cache = <<>>
    /\ grid_obj = <<>>
    /\ opt = <<>>
    /\ exec = <<>>

IdleSolvers ==
    /\ IdleObjects
    /\ inp = <<>>
    /\ out = <<>>
    /\ ga = <<>>
    /\ alo = <<>>

\* the replanning variant's variables while the collision model runs
IdleReplan ==
    /\ orders = <<>>
    /\ blocked = {}
    /\ plan = <<>>
    /\ rproc = <<>>
    /\ monitor = <<>>
    /\ kpis = <<>>
    /\ kpi_records = <<>>
    /\ hist = <<>>
    /\ nblocks = 0

InitProc == [pc |-> "idle", leg |-> 0, k |-> 0, nxt |-> 0, cur |-> NoCell,
             wait_start |-> 0, moves |-> 0, finish |-> NoTime]

InitStats == [total_collisions |-> 0, total_wait_time |-> 0, max_wait_time |-> 0,
              wait_events |-> <<>>, collision_locations |-> <<>>,
              bot_wait_times |-> [b \in Bots |-> 0], makespan |-> 0]

\* bot_tours is any list of NumBots tours of size MaxInput at most: the tours
\* of bots b, b+1, ... are chosen within what the tours before them (acc)
\* have left (n)
RECURSIVE ChooseTours(_, _, _)
ChooseTours(b, n, acc) ==
    IF b = NumBots THEN bot_tours = [i \in Bots |-> acc[i + 1]]
    ELSE \E k \in 0..n : \E t \in ToursTable[k] :
             ChooseTours(b + 1, n - k, Append(acc, t))

InitCollision ==
    /\ ChooseTours(0, MaxInput, <<>>)
    /\ now = 0
    /\ queue = StartBots(bot_tours, 0)
    /\ users = [c \in Cells |-> <<>>]
    /\ put_queue = [c \in Cells |-> <<>>]
    /\ phase = "running"
    /\ proc = [b \in Bots |-> InitProc]
    /\ stats = InitStats
    /\ log = <<>>
    /\ IdleReplan
    /\ IdleSolvers

Path(b) == bot_tours[b][proc[b].leg]

\* history: the one request of bot b that has not been answered yet
Pending(b) == CHOOSE i \in 1..Len(log) : log[i].bot = b /\ log[i].resumed = NoTime

\* bot_process starts its loop over tour_paths: the first follow_path process
BotInit ==
    /\ HeadIs("BotInit")
    /\ LET e == Head(queue) b == e.who
       IN  /\ now' = e.t
           /\ queue' = Schedule(Tail(queue), Event(e.t, URGENT, "PathInit", b))
           /\ proc' = [proc EXCEPT ![b].leg = 1, ![b].pc = "between"]
    /\ UNCHANGED <<notCollision, users, put_queue, phase, bot_tours, stats, log>>

\* follow_path_with_tracking, lines 53-63: up to the first "yield req"
PathInit ==
    /\ HeadIs("PathInit")
    /\ LET e == Head(queue) b == e.who path == Path(b)
       IN  /\ now' = e.t
           /\ IF path = <<>> \/ path[1] \notin Cells
              THEN /\ queue' = Schedule(Tail(queue), Event(e.t, NORMAL, "PathDone", b))
                   /\ proc' = [proc EXCEPT ![b].pc = "between"]
                   /\ UNCHANGED <<users, put_queue, log>>
              ELSE /\ SetKernel(Request(Kernel, b, path[1], e.t))
                   /\ proc' = [proc EXCEPT ![b].pc = "wait", ![b].k = 1,
                                           ![b].wait_start = e.t]
                   /\ log' = Append(log, [bot |-> b, cell |-> path[1], t |-> e.t,
                                           held |-> HeldByOther(users, b, path[1]),
                                           resumed |-> NoTime])
    /\ UNCHANGED <<notCollision, phase, bot_tours, stats>>

\* the request the bot waits on has been granted: lines 64-83 (first cell) or
\* 92-103 and the next turn of the loop, up to the next yield, or to the
\* final release of lines 106-107
Granted ==
    /\ HeadIs("Granted")
    /\ LET e == Head(queue) b == e.who path == Path(b)
           c == path[proc[b].k]
           w == e.t - proc[b].wait_start
           j == NextValid(path, proc[b].k)
       IN  /\ now' = e.t
           /\ stats' = RecordWait(stats, b, c, w)
           /\ log' = [log EXCEPT ![Pending(b)].resumed = e.t]
           /\ IF j # 0
              THEN /\ queue' = Schedule(Tail(queue), Event(e.t + StepTime, NORMAL, "Timeout", b))
                   /\ proc' = [proc EXCEPT ![b].pc = "move", ![b].cur = c, ![b].nxt = j]
                   /\ UNCHANGED <<users, put_queue>>
              ELSE /\ LET st == Release(Kernel, b, c, e.t)
                      IN  SetKernel([st EXCEPT !.queue =
                                Schedule(@, Event(e.t, NORMAL, "PathDone", b))])
                   /\ proc' = [proc EXCEPT ![b].pc = "between", ![b].cur = NoCell]
    /\ UNCHANGED <<notCollision, phase, bot_tours>>

\* the travel time is over: lines 85-91, up to "yield req"
Timeout ==
    /\ HeadIs("Timeout")
    /\ LET e == Head(queue) b == e.who path == Path(b)
           cur == proc[b].cur
           nxt == path[proc[b].nxt]
       IN  /\ now' = e.t
           /\ SetKernel(MoveStep(Kernel, b, cur, nxt, e.t))
           /\ proc' = [proc EXCEPT ![b].pc = "wait", ![b].k = proc[b].nxt,
                                   ![b].wait_start = e.t, ![b].moves = @ + 1]
           /\ log' = Append(log, [bot |-> b, cell |-> nxt, t |-> e.t,
                                   held |-> HeldByOther(Release(Kernel, b, cur, e.t).users, b, nxt),
                                   resumed |-> NoTime])
    /\ UNCHANGED <<notCollision, phase, bot_tours, stats>>

\* a Release event is processed: its callback grants the cell to the head of
\* the put queue
ReleaseEv ==
    /\ HeadIs("Release")
    /\ LET e == Head(queue)
       IN  /\ now' = e.t
           /\ SetKernel(TriggerPut(Kernel, e.who, e.t))
    /\ UNCHANGED <<notCollision, phase, bot_tours, proc, stats, log>>

\* a follow_path process has ended: bot_process goes on with the next path,
\* or ends
PathDone ==
    /\ HeadIs("PathDone")
    /\ LET e == Head(queue) b == e.who
       IN  /\ now' = e.t
           /\ IF proc[b].leg < Len(bot_tours[b])
              THEN /\ queue' = Schedule(Tail(queue), Event(e.t, URGENT, "PathInit", b))
                   /\ proc' = [proc EXCEPT ![b].leg = @ + 1, ![b].k = 0, ![b].nxt = 0]
              ELSE /\ queue' = Schedule(Tail(queue), Event(e.t, NORMAL, "BotDone", b))
                   /\ proc' = [proc EXCEPT ![b].pc = "done", ![b].finish = e.t]
    /\ UNCHANGED <<notCollision, users, put_queue, phase, bot_tours, stats, log>>

\* the event of a finished bot_process: nobody waits on it
BotDone ==
    /\ HeadIs("BotDone")
    /\ now' = Head(queue).t
    /\ queue' = Tail(queue)
    /\ UNCHANGED <<notCollision, users, put_queue, phase, bot_tours, proc, stats, log>>

\* env.run() returns when no event is left; lines 170-171
Return ==
    /\ phase = "running"
    /\ queue = <<>>
    /\ stats' = [stats EXCEPT !.makespan = now]
    /\ phase' = "returned"
    /\ UNCHANGED <<notCollision, now, queue, users, put_queue, bot_tours, proc, log>>

NextCollision ==
    \/ BotInit
    \/ PathInit
    \/ Granted
    \/ Timeout
    \/ ReleaseEv
    \/ PathDone
    \/ BotDone
    \/ Return

SpecCollision == InitCollision /\ [][NextCollision]_vars

(***************************************************************************)
(* Properties of the pure collision model.                                 *)
(***************************************************************************)

InSeq(x, s) == \E i \in 1..Len(s) : s[i] = x

Started(b) == bot_tours[b] # <<>>

\* A bot simulated alone never waits, so it holds each cell for exactly one
\* step_time, except the last cell of a path, which it releases the moment it
\* gets it. The cells of one path that it holds for a step_time, in order:
HeldCells(path) ==
    IF path = <<>> \/ path[1] \notin Cells THEN <<>>
    ELSE LET valid == SelectSeq(path, LAMBDA p : p \in Cells)
         IN  SubSeq(valid, 1, Len(valid) - 1)

\* ... and of a whole tour: AloneHeld(tour)[i] is held from (i-1) to i step times
RECURSIVE AloneHeld(_)
AloneHeld(tour) ==
    IF tour = <<>> THEN <<>> ELSE HeldCells(Head(tour)) \o AloneHeld(Tail(tour))

\* the completion time of a bot simulated alone
AloneFinish(tour) == StepTime * Len(AloneHeld(tour))

RECURSIVE MaxAlone(_)
MaxAlone(b) == IF b = NumBots THEN 0 ELSE Max(AloneFinish(bot_tours[b]), MaxAlone(b + 1))

TheoreticalMakespan == MaxAlone(0)

\* two tours whose alone schedules put both bots in one cell during the same
\* step
AloneOverlap(ta, tb) ==
    LET ha == AloneHeld(ta) hb == AloneHeld(tb)
    IN  \E i \in 1..Len(ha) : i <= Len(hb) /\ ha[i] = hb[i]

Waiting(b) == \E c \in Cells : InSeq(b, put_queue[c])
Holding(b) == \E c \in Cells : InSeq(b, users[c])

\* C1: at every simulated instant each free grid cell is held by at most one
\* agent.
C1_CellMutex == \A c \in Cells : Len(users[c]) <= 1

\* C1 witness: a cell is held by one agent while another agent waits for it.
C1_Witness == \E c \in Cells : Len(users[c]) = 1 /\ put_queue[c] # <<>>

SwapRun ==
    LET S == {b \in Bots : Started(b)}
    IN  /\ Cardinality(S) = 2
        /\ \E a \in S : \E X, Y \in Cells :
              /\ X # Y
              /\ bot_tours[a] = << <<X, Y>> >>
              /\ \A b \in S \ {a} : bot_tours[b] = << <<Y, X>> >>

C4_NoCollisionMakespan ==
    (phase = "returned" /\ stats.total_collisions = 0) =>
        stats.makespan = TheoreticalMakespan

\* C4 witness: a run of bots that all moved, two of them through one cell,
\* returns without a collision and with a makespan above zero.
C4_Witness ==
    /\ phase = "returned"
    /\ stats.total_collisions = 0
    /\ \A b \in Bots : proc[b].moves > 0
    /\ \E i, j \in 1..Len(log) : log[i].bot # log[j].bot /\ log[i].cell = log[j].cell
    /\ stats.makespan >= StepTime

\* C5: total_wait_time >= 0 and max_wait_time <= total_wait_time, in every
\* state of a run and in the stats returned.
C5_WaitTotals ==
    /\ stats.total_wait_time >= 0
    /\ stats.max_wait_time <= stats.total_wait_time

\* C5 witness: two waits were recorded, the longest shorter than the total.
C5_Witness ==
    /\ Len(stats.wait_events) >= 2
    /\ stats.max_wait_time > 0
    /\ stats.max_wait_time < stats.total_wait_time

\* C6: two agents whose alone schedules put both in one cell for a positive
\* duration make the simulation return total_collisions >= 1 and
\* total_wait_time > 0.
C6_OverlapCollides ==
    phase = "returned" =>
        \A a, b \in Bots :
            (a # b /\ AloneOverlap(bot_tours[a], bot_tours[b])) =>
                (stats.total_collisions >= 1 /\ stats.total_wait_time > 0)

\* C6 witness: a returned run of two tours that overlap, both bots having
\* moved on after the shared cell.
C6_Witness ==
    /\ phase = "returned"
    /\ \E a, b \in Bots :
          /\ a # b
          /\ AloneOverlap(bot_tours[a], bot_tours[b])
          /\ proc[a].moves > 0 /\ proc[b].moves > 0

\* C7 as stated: every request of a cell that another agent holds at the
\* moment of the request adds one to total_collisions and appends the cell to
\* collision_locations (when the requester goes on).
C7_HeldRequestCounted ==
    [][(HeadIs("Granted") /\ log[Pending(Head(queue).who)].held) =>
          /\ stats'.total_collisions = stats.total_collisions + 1
          /\ stats'.collision_locations =
                Append(stats.collision_locations, log[Pending(Head(queue).who)].cell)
      ]_vars

\* the answered requests that were granted at a later instant than made
Waited == {i \in 1..Len(log) : log[i].resumed # NoTime /\ log[i].resumed > log[i].t}

Count(s, x) == Cardinality({i \in 1..Len(s) : s[i] = x})

\* C7 as the code has it: total_collisions counts, and collision_locations
\* lists, exactly the requests granted at a later simulated instant than they
\* were made; a request of a held cell that is granted within the same
\* instant (the holder releases in that instant) adds nothing.
C7_PositiveWaitsCounted ==
    LET W == Waited
    IN  /\ stats.total_collisions = Cardinality(W)
        /\ Len(stats.collision_locations) = stats.total_collisions
        /\ \A c \in Cells :
              Count(stats.collision_locations, c) =
                  Cardinality({i \in W : log[i].cell = c})

\* C7 witness: a request of a held cell was granted at a later instant and
\* counted, while a request granted within its own instant was not.
C7_Witness ==
    /\ \E i \in Waited : log[i].held
    /\ \E i \in 1..Len(log) : log[i].resumed = log[i].t
    /\ stats.total_collisions = 1
    /\ Len(log) > 1

\* the largest of (moves * step_time + recorded wait) over the started bots
\* b, b+1, ...
RECURSIVE MaxMovesAndWaits(_)
MaxMovesAndWaits(b) ==
    IF b = NumBots THEN 0
    ELSE Max(IF Started(b) THEN StepTime * proc[b].moves + stats.bot_wait_times[b] ELSE 0,
             MaxMovesAndWaits(b + 1))

\* C12: the makespan returned is the simulated time at which the last agent
\* finishes; every started agent finishes at step_time times its number of
\* moves plus the wait recorded for it in bot_wait_times, so the makespan is
\* the largest of these sums.
C12_MakespanIsLastFinish ==
    /\ \A b \in Bots :
          proc[b].pc = "done" =>
              proc[b].finish = StepTime * proc[b].moves + stats.bot_wait_times[b]
    /\ phase = "returned" =>
          /\ \A b \in Bots : Started(b) =>
                (proc[b].pc = "done" /\ proc[b].finish <= stats.makespan)
          /\ (\E b \in Bots : Started(b)) =>
                \E b \in Bots : Started(b) /\ proc[b].finish = stats.makespan
          /\ stats.makespan = MaxMovesAndWaits(0)

\* C12 witness: a returned run in which the last agent to finish both moved
\* and waited, and another agent finished earlier.
C12_Witness ==
    /\ phase = "returned"
    /\ \E a, b \in Bots :
          /\ proc[a].finish = stats.makespan
          /\ proc[a].moves > 0
          /\ stats.bot_wait_times[a] > 0
          /\ Started(b)
          /\ proc[b].finish < proc[a].finish

(***************************************************************************)
(* Part C.  module3_simulation.py, run_simulation_scenario(with_simpy=True) *)
(*                                                                         *)
(* The cells are the nodes 0 .. width*height-1 of the grid graph. Blocking *)
(* and unblocking (stochastic_blocker, unblock_after, forced_block_tests)  *)
(* happen at times of their own, between two robot instants.               *)
(***************************************************************************)
GridW == 2            \* width
GridH == 2            \* height
NumOrders == 2        \* orders of the scenario
CutoffSteps == 4      \* max_sim_time (1000) in units of step_time
MaxBlocks == 3        \* block_cell calls in one run

Nodes == 0 .. (GridW * GridH - 1)
OrderIds == 1 .. NumOrders

\* make_grid_graph: node i is the grid point (i \div height, i % height);
\* grid_2d_graph joins the points one step apart along one axis
Abs(x) == IF x < 0 THEN 0 - x ELSE x
Adjacent(m, n) ==
    Abs((m \div GridH) - (n \div GridH)) + Abs((m % GridH) - (n % GridH)) = 1

\* the walks of exactly k edges from src to tgt inside the node set H
RECURSIVE WalksOfLen(_, _, _, _)
WalksOfLen(src, tgt, H, k) ==
    IF k = 0 THEN (IF src = tgt THEN {<<src>>} ELSE {})
    ELSE UNION {{<<src>> \o w : w \in WalksOfLen(n, tgt, H, k - 1)} :
                    n \in {m \in H : Adjacent(src, m)}}

RECURSIVE ShortestFrom(_, _, _, _)
ShortestFrom(src, tgt, H, k) ==
    IF k >= Cardinality(H) THEN {}
    ELSE IF WalksOfLen(src, tgt, H, k) # {} THEN WalksOfLen(src, tgt, H, k)
    ELSE ShortestFrom(src, tgt, H, k + 1)

\* astar_path_avoid: the paths it may return; {} stands for the exception
\* networkx raises (no path, or source or target removed with the blocked
\* nodes). The heuristic is admissible, so the path is a shortest one; which
\* of several shortest paths comes back is left open.
AstarPathAvoid(source, target, blocked_set) ==
    IF source = target THEN {<<source>>}
    ELSE IF source \in blocked_set \/ target \in blocked_set THEN {}
    ELSE ShortestFrom(source, target, Nodes \ blocked_set, 1)

\* "try: plan = astar_path_avoid(...) except Exception: plan = [s]"
PlanOrStay(source, target, blocked_set) ==
    IF AstarPathAvoid(source, target, blocked_set) = {} THEN {<<source>>}
    ELSE AstarPathAvoid(source, target, blocked_set)

\* "next((n for n in plan if not grid_sim.is_blocked(n)), None)": the index
\* of the first unblocked node of the plan, 0 for None
FallbackLast(pl, blk) ==
    LET free == {i \in 1..Len(pl) : pl[i] \notin blk}
    IN  IF free = {} THEN 0 ELSE CHOOSE i \in free : \A j \in free : i >= j
Fallback(pl, blk) ==
    LET free == {i \in 1..Len(pl) : pl[i] \notin blk}
    IN  IF free = {} THEN 0 ELSE CHOOSE i \in free : \A j \in free : i <= j

\* OrderKPIs.__init__ and to_dict (planning_time_s is wall-clock time and is
\* left out)
NewKPIs(t) == [start_time |-> t, end_time |-> NoTime, waits_s |-> 0,
               replan_count |-> 0, success |-> FALSE]

ToDict(o, k) == [order_id |-> o,
                 exec_time_s |-> IF k.end_time # NoTime THEN k.end_time - k.start_time
                                 ELSE NoTime,
                 waits_s |-> k.waits_s,
                 replan_count |-> k.replan_count,
                 success |-> IF k.success THEN 1 ELSE 0]

\* lines 282-286: the record of an order that has not finished
Stub(o, t) == [order_id |-> o, exec_time_s |-> t, waits_s |-> 0,
               replan_count |-> 0, success |-> 0]

\* lines 279-287: a stub for every order without a record, in order
RECURSIVE AddStubsAll(_, _, _)
AddStubsAll(recs, o, t) ==
    IF o > NumOrders THEN recs
    ELSE AddStubsAll(Append(recs, Stub(o, t)), o + 1, t)
RECURSIVE AddStubs(_, _, _)
AddStubs(recs, o, t) ==
    IF o > NumOrders THEN recs
    ELSE IF \E i \in 1..Len(recs) : recs[i].order_id = o
         THEN AddStubs(recs, o + 1, t)
         ELSE AddStubs(Append(recs, Stub(o, t)), o + 1, t)

\* the state before the orders are launched (lines 205-209); the scenario's
\* orders are any start and goal nodes
InitReplan ==
    /\ orders \in [OrderIds -> [start : Nodes, goal : Nodes]]
    /\ now = 0
    /\ queue = <<>>
    /\ users = [n \in Nodes |-> <<>>]
    /\ put_queue = [n \in Nodes |-> <<>>]
    /\ phase = "setup"
    /\ blocked = {}
    /\ plan = [o \in OrderIds |-> <<>>]
    /\ rproc = [o \in OrderIds |-> [pc |-> "none", i |-> 0, held |-> NoCell, t_req |-> 0]]
    /\ monitor = [o \in OrderIds |-> "none"]
    /\ kpis = [o \in OrderIds |-> NewKPIs(0)]
    /\ kpi_records = <<>>
    /\ hist = [o \in OrderIds |-> [stops |-> 0, last |-> NoCell, grants |-> <<>>,
                                   starts |-> 0, decisions |-> <<>>]]
    /\ nblocks = 0
    /\ bot_tours = <<>>
    /\ proc = <<>>
    /\ stats = InitStats
    /\ log = <<>>
    /\ IdleSolvers

\* env.process(robot_process(...)): a new robot process and its Initialize event
StartRobot(q, o, t) == Schedule(q, Event(t, URGENT, "RobotInit", o))

\* launch_order(o), lines 213-225 and 258: called for the orders in turn
\* before env.run
LaunchOrder ==
    /\ phase = "setup"
    /\ \E o \in OrderIds :
          /\ monitor[o] = "none"
          /\ \A o2 \in OrderIds : o2 < o => monitor[o2] # "none"
          /\ \E pl \in PlanOrStay(orders[o].start, orders[o].goal, blocked) :
                plan' = [plan EXCEPT ![o] = pl]
          /\ kpis' = [kpis EXCEPT ![o] = NewKPIs(now)]
          /\ queue' = Schedule(StartRobot(queue, o, now), Event(now, URGENT, "MonitorInit", o))
          /\ rproc' = [rproc EXCEPT ![o].pc = "init"]
          /\ monitor' = [monitor EXCEPT ![o] = "init"]
          /\ phase' = IF o = NumOrders THEN "running" ELSE "setup"
    /\ UNCHANGED <<notReplan, nblocks, now, users, put_queue, orders, blocked, kpi_records, hist>>

\* env.run(until=max_sim_time) processes the events before the cutoff
RHeadIs(kind) == HeadIs(kind) /\ Head(queue).t < CutoffSteps

\* robot_process lines 95-98: the first cell is requested
RobotInit ==
    /\ RHeadIs("RobotInit")
    /\ LET e == Head(queue) o == e.who
       IN  /\ now' = e.t
           /\ SetKernel(Request(Kernel, o, plan[o][1], e.t))
           /\ rproc' = [rproc EXCEPT ![o] = [pc |-> "first", i |-> 1, held |-> NoCell,
                                             t_req |-> e.t]]
           /\ hist' = [hist EXCEPT ![o].starts = @ + 1]
    /\ UNCHANGED <<notReplan, nblocks, phase, orders, blocked, plan, monitor, kpis, kpi_records>>

\* monitor starts and waits for follow_proc (line 231)
MonitorInit ==
    /\ RHeadIs("MonitorInit")
    /\ now' = Head(queue).t
    /\ queue' = Tail(queue)
    /\ monitor' = [monitor EXCEPT ![Head(queue).who] = "waiting"]
    /\ UNCHANGED <<notReplan, nblocks, users, put_queue, phase, orders, blocked, plan, rproc, kpis,
                   kpi_records, hist>>

\* One turn of "for nxt in path[1:]" from its head to the next yield or
\* return (lines 103-113, 125-128), for a robot that holds plan[o][i].
\* st is the kernel state; the result adds the robot's and the KPI's state.
LoopHeadNoCheck(st, o, i, t) ==
    LET held == plan[o][i]
    IN  IF i = Len(plan[o])
        THEN [k |-> [Release(st, o, held, t) EXCEPT !.queue =
                        Schedule(@, Event(t, NORMAL, "ProcTrue", o))],
              pc |-> "ended", success |-> TRUE, stopped |-> FALSE]
        ELSE [k |-> Request(st, o, plan[o][i + 1], t),
              pc |-> "next", success |-> kpis[o].success, stopped |-> FALSE]
LoopHead(st, o, i, t) ==
    LET held == plan[o][i]
    IN  IF i = Len(plan[o])
        THEN [k |-> [Release(st, o, held, t) EXCEPT !.queue =
                        Schedule(@, Event(t, NORMAL, "ProcTrue", o))],
              pc |-> "ended", success |-> TRUE, stopped |-> FALSE]
        ELSE IF plan[o][i + 1] \in blocked
        THEN [k |-> [Release(st, o, held, t) EXCEPT !.queue =
                        Schedule(@, Event(t, NORMAL, "ProcFalse", o))],
              pc |-> "ended", success |-> kpis[o].success, stopped |-> TRUE]
        ELSE [k |-> Request(st, o, plan[o][i + 1], t),
              pc |-> "next", success |-> kpis[o].success, stopped |-> FALSE]

\* a request of the robot has been granted: lines 99-100 and the loop head
\* (first cell), or lines 114-118 (next cell)
RobotGranted ==
    /\ RHeadIs("Granted")
    /\ LET e == Head(queue) o == e.who r == rproc[o]
           w == e.t - r.t_req
       IN  /\ now' = e.t
           /\ IF r.pc = "first"
              THEN LET h == LoopHead(Kernel, o, 1, e.t)
                   IN  /\ SetKernel(h.k)
                       /\ rproc' = [rproc EXCEPT ![o] = [pc |-> h.pc, i |-> 1,
                                        held |-> plan[o][1], t_req |-> e.t]]
                       /\ kpis' = [kpis EXCEPT ![o].waits_s = @ + w,
                                               ![o].success = h.success]
                       /\ hist' = [hist EXCEPT
                                     ![o].stops = @ + (IF h.stopped THEN 1 ELSE 0),
                                     ![o].last = plan[o][1],
                                     ![o].grants = Append(@, [cell |-> plan[o][1],
                                                    blocked |-> plan[o][1] \in blocked])]
              ELSE /\ queue' = Schedule(Tail(queue), Event(e.t + StepTime, NORMAL, "Timeout", o))
                   /\ rproc' = [rproc EXCEPT ![o].pc = "move"]
                   /\ kpis' = [kpis EXCEPT ![o].waits_s = @ + w]
                   /\ hist' = [hist EXCEPT
                                 ![o].last = plan[o][r.i + 1],
                                 ![o].grants = Append(@, [cell |-> plan[o][r.i + 1],
                                                blocked |-> plan[o][r.i + 1] \in blocked])]
                   /\ UNCHANGED <<users, put_queue>>
    /\ UNCHANGED <<notReplan, nblocks, phase, orders, blocked, plan, monitor, kpi_records>>

\* the move is over: lines 121-123, then the loop head
RobotTimeout ==
    /\ RHeadIs("Timeout")
    /\ LET e == Head(queue) o == e.who r == rproc[o]
           h == LoopHead(Release(Kernel, o, r.held, e.t), o, r.i + 1, e.t)
       IN  /\ now' = e.t
           /\ SetKernel(h.k)
           /\ rproc' = [rproc EXCEPT ![o] = [pc |-> h.pc, i |-> r.i + 1,
                                             held |-> plan[o][r.i + 1], t_req |-> e.t]]
           /\ kpis' = [kpis EXCEPT ![o].success = h.success]
           /\ hist' = [hist EXCEPT ![o].stops = @ + (IF h.stopped THEN 1 ELSE 0)]
    /\ UNCHANGED <<notReplan, nblocks, phase, orders, blocked, plan, monitor, kpi_records>>

\* a Release event is processed: the cell goes to the head of its put queue
RobotReleaseEv ==
    /\ RHeadIs("Release")
    /\ LET e == Head(queue)
       IN  /\ now' = e.t
           /\ SetKernel(TriggerPut(Kernel, e.who, e.t))
    /\ UNCHANGED <<notReplan, nblocks, phase, orders, blocked, plan, rproc, monitor, kpis,
                   kpi_records, hist>>

\* monitor, lines 232-235: the robot process returned True
MonitorSuccess ==
    /\ RHeadIs("ProcTrue")
    /\ LET e == Head(queue) o == e.who
           k == [kpis[o] EXCEPT !.end_time = e.t]
       IN  /\ now' = e.t
           /\ kpis' = [kpis EXCEPT ![o] = k]
           /\ kpi_records' = Append(kpi_records, ToDict(o, k))
           /\ monitor' = [monitor EXCEPT ![o] = "done"]
           /\ queue' = Schedule(Tail(queue), Event(e.t, NORMAL, "MonitorDone", o))
    /\ UNCHANGED <<notReplan, nblocks, users, put_queue, phase, orders, blocked, plan, rproc, hist>>

\* monitor, lines 236-256: the robot process returned False
MonitorReplan ==
    /\ RHeadIs("ProcFalse")
    /\ LET e == Head(queue) o == e.who
           f == Fallback(plan[o], blocked)
           k == [kpis[o] EXCEPT !.replan_count = @ + 1]
       IN  /\ now' = e.t
           /\ IF f = 0
              THEN LET kf == [k EXCEPT !.end_time = e.t, !.success = FALSE]
                   IN  /\ kpis' = [kpis EXCEPT ![o] = kf]
                       /\ kpi_records' = Append(kpi_records, ToDict(o, kf))
                       /\ monitor' = [monitor EXCEPT ![o] = "done"]
                       /\ queue' = Schedule(Tail(queue), Event(e.t, NORMAL, "MonitorDone", o))
                       /\ UNCHANGED <<plan, rproc>>
              ELSE /\ kpis' = [kpis EXCEPT ![o] = k]
                   /\ \E pl \in PlanOrStay(plan[o][f], orders[o].goal, blocked) :
                         plan' = [plan EXCEPT ![o] = pl]
                   /\ queue' = StartRobot(Tail(queue), o, e.t)
                   /\ rproc' = [rproc EXCEPT ![o].pc = "init"]
                   /\ UNCHANGED <<kpi_records, monitor>>
           /\ hist' = [hist EXCEPT ![o].decisions =
                          Append(@, [stale |-> plan[o], blk |-> blocked, new |-> plan'[o],
                                     gave_up |-> monitor'[o] = "done"])]
    /\ UNCHANGED <<notReplan, nblocks, users, put_queue, phase, orders, blocked>>

\* the event of a finished monitor: nobody waits on it
MonitorDone ==
    /\ RHeadIs("MonitorDone")
    /\ now' = Head(queue).t
    /\ queue' = Tail(queue)
    /\ UNCHANGED <<notReplan, nblocks, users, put_queue, phase, orders, blocked, plan, rproc, monitor,
                   kpis, kpi_records, hist>>

\* the robot instant is over and a later robot event is due before the cutoff
BetweenInstants ==
    /\ phase = "running"
    /\ queue # <<>>
    /\ Head(queue).t > now
    /\ Head(queue).t < CutoffSteps

\* grid_sim.block_cell(node), by stochastic_blocker (line 141, for a node not
\* yet blocked) or a forced block (line 269)
BlockCell ==
    /\ BetweenInstants
    /\ nblocks < MaxBlocks
    /\ \E n \in Nodes \ blocked : blocked' = blocked \cup {n}
    /\ nblocks' = nblocks + 1
    /\ UNCHANGED <<notReplan, kernelVars, orders, plan, rproc, monitor, kpis, kpi_records,
                   hist>>

\* grid_sim.unblock_cell(node), by unblock_after (line 150) or at the end of
\* a forced block (line 271)
UnblockCell ==
    /\ BetweenInstants
    /\ \E n \in blocked : blocked' = blocked \ {n}
    /\ UNCHANGED <<notReplan, nblocks, kernelVars, orders, plan, rproc, monitor, kpis, kpi_records,
                   hist>>

\* env.run(until=max_sim_time) returns; lines 278-290
Cutoff ==
    /\ phase = "running"
    /\ IF queue = <<>> THEN TRUE ELSE Head(queue).t >= CutoffSteps
    /\ now' = CutoffSteps
    /\ kpi_records' = AddStubs(kpi_records, 1, CutoffSteps)
    /\ phase' = "returned"
    /\ UNCHANGED <<notReplan, nblocks, queue, users, put_queue, orders, blocked, plan, rproc, monitor,
                   kpis, hist>>

NextReplan ==
    \/ LaunchOrder
    \/ RobotInit
    \/ MonitorInit
    \/ RobotGranted
    \/ RobotTimeout
    \/ RobotReleaseEv
    \/ MonitorSuccess
    \/ MonitorReplan
    \/ MonitorDone
    \/ BlockCell
    \/ UnblockCell
    \/ Cutoff

SpecReplan == InitReplan /\ [][NextReplan]_vars

(***************************************************************************)
(* Properties of the replanning variant.                                   *)
(***************************************************************************)

RecordsOf(o) == {i \in 1..Len(kpi_records) : kpi_records[i].order_id = o}
RecordOf(o) == kpi_records[CHOOSE i \in RecordsOf(o) : TRUE]

\* the robot of order o waits for a cell that another order's robot holds
WaitsOnOther(o) ==
    \E n \in Nodes : InSeq(o, put_queue[n]) /\ \E o2 \in OrderIds \ {o} : InSeq(o2, users[n])

\* C8: run_simulation_scenario returns exactly one KPI record per order, and
\* every order that has not finished by the cutoff is reported with
\* success = 0.
C8_OneRecordPerOrder ==
    phase = "returned" =>
        /\ Len(kpi_records) = NumOrders
        /\ \A o \in OrderIds : Cardinality(RecordsOf(o)) = 1
        /\ \A o \in OrderIds : monitor[o] # "done" => RecordOf(o).success = 0

\* C8 witness: the run has returned at the cutoff with a robot still waiting
\* for a cell that another robot holds, its order reported as failed.
C8_Witness ==
    /\ phase = "returned"
    /\ now = CutoffSteps
    /\ \E o \in OrderIds :
          /\ monitor[o] # "done"
          /\ WaitsOnOther(o)
          /\ RecordOf(o).success = 0

\* C9: for every order, the replan_count of the KPI record returned equals the
\* number of times its robot stopped on a blocked next cell.
C9_ReplanCountReported ==
    phase = "returned" =>
        \A o \in OrderIds :
            \A i \in RecordsOf(o) : kpi_records[i].replan_count = hist[o].stops

\* C10: an order has success set only when the last cell its robot acquired
\* is the order's goal node.
C10_SuccessAtGoal ==
    \A o \in OrderIds : kpis[o].success => hist[o].last = orders[o].goal

\* an event of the given kind for order o is waiting in the event queue
PendingFor(o, kind) == \E i \in 1..Len(queue) : queue[i].kind = kind /\ queue[i].who = o

\* the restarts among the decisions monitor has taken for order o
Restarts(o) == {i \in 1..Len(hist[o].decisions) : ~hist[o].decisions[i].gave_up}

\* C11: after each stop of a robot on a blocked next cell, monitor does exactly
\* one of two things: if a node of the stale plan is unblocked it starts a new
\* robot process on a path that begins at the first such node; if every node
\* of the stale plan is blocked it records the order as failed and never
\* restarts it.
C11_MonitorDecision ==
    \A o \in OrderIds :
        LET D == hist[o].decisions
        IN  /\ Len(D) + (IF PendingFor(o, "ProcFalse") THEN 1 ELSE 0) = hist[o].stops
            /\ phase = "returned" => Len(D) = hist[o].stops
            /\ \A i \in 1..Len(D) :
                  LET free == {j \in 1..Len(D[i].stale) : D[i].stale[j] \notin D[i].blk}
                  IN  IF free = {}
                      THEN D[i].gave_up /\ i = Len(D)
                      ELSE /\ ~D[i].gave_up
                           /\ D[i].new # <<>>
                           /\ \E j \in free : /\ \A k \in free : j <= k
                                               /\ D[i].new[1] = D[i].stale[j]
            /\ monitor[o] # "none" =>
                  hist[o].starts + (IF PendingFor(o, "RobotInit") THEN 1 ELSE 0)
                      = 1 + Cardinality(Restarts(o))
            /\ (D # <<>> /\ D[Len(D)].gave_up) =>
                  /\ monitor[o] = "done"
                  /\ rproc[o].pc = "ended"
                  /\ ~PendingFor(o, "RobotInit")
                  /\ Cardinality(RecordsOf(o)) = 1
                  /\ RecordOf(o).success = 0

\* C11 witness: the run has returned; monitor restarted one robot from a node
\* that was not the first node of its stale plan, and gave up on an order
\* whose stale plan was blocked throughout.
C11_Witness ==
    /\ phase = "returned"
    /\ \E o \in OrderIds : \E i \in 1..Len(hist[o].decisions) :
          /\ ~hist[o].decisions[i].gave_up
          /\ hist[o].decisions[i].stale[1] \in hist[o].decisions[i].blk
    /\ \E o \in OrderIds : \E i \in 1..Len(hist[o].decisions) :
          hist[o].decisions[i].gave_up

(***************************************************************************)
(* Part D.  The tour solvers (algos/) and the grid searches (sim/routing). *)
(*                                                                         *)
(* A distance function dist(i, j) is a matrix over the cities 0 .. n-1; a  *)
(* tour is a sequence of cities (position 1 is Python's index 0). Wall     *)
(* clock limits are counted in clock readings: a limit of k lets the first *)
(* k readings of the clock pass and every later one find the time over.    *)
(***************************************************************************)
MaxN == 4             \* cities of an instance
MaxDist == 3          \* largest entry of a symmetric distance matrix
MaxOdd == 2           \* entries of a skewed matrix that differ from 1
MaxTicks == 2         \* clock readings a finite time limit lets pass

Inf == 1000000000     \* float('inf')
NoCity == 0 - 1       \* the -1 of "best = (float('inf'), -1)"

Cities(n) == 0 .. (n - 1)

\* float addition where one term may be infinite
Plus(a, b) == IF a >= Inf \/ b >= Inf THEN Inf ELSE a + b

\* the symmetric matrices with entries 1 .. MaxDist off the diagonal
SymDists(n) ==
    LET Upper == {p \in Cities(n) \X Cities(n) : p[1] < p[2]}
    IN  {[p \in Cities(n) \X Cities(n) |->
             IF p[1] = p[2] THEN 0
             ELSE IF p[1] < p[2] THEN f[p] ELSE f[<<p[2], p[1]>>]] :
         f \in [Upper -> 1 .. MaxDist]}

\* what an entry that differs from 1 can be
OddVals == (2 .. MaxDist) \cup {Inf}

\* the lists of k off-diagonal entries of which at most b differ from 1
RECURSIVE SkewEntries(_, _)
SkewEntries(k, b) ==
    IF k = 0 THEN {<<>>}
    ELSE {<<1>> \o r : r \in SkewEntries(k - 1, b)}
         \cup (IF b = 0 THEN {}
               ELSE UNION {{<<v>> \o r : r \in SkewEntries(k - 1, b - 1)} : v \in OddVals})

\* the matrices, symmetric or not, built from such a list row by row
SkewDists(n) ==
    {[p \in Cities(n) \X Cities(n) |->
         IF p[1] = p[2] THEN 0
         ELSE e[p[1] * (n - 1) + (IF p[2] > p[1] THEN p[2] ELSE p[2] + 1)]] :
     e \in SkewEntries(n * (n - 1), MaxOdd)}

Dists(n) == SymDists(n) \cup SkewDists(n)

TimeLimits == (0 .. MaxTicks) \cup {Inf}

\* t holds each of the n cities once
IsPermutation(t, n) ==
    /\ DOMAIN t = 1..n
    /\ \A c \in Cities(n) : \E i \in 1..n : t[i] = c

\* tour_length (tsp_exact.py, tsp_nn_2opt.py) and length (tsp_ga.py): the
\* open path, without the way back
RECURSIVE tour_length(_, _)
tour_length(order, dist) ==
    IF Len(order) <= 1 THEN 0
    ELSE Plus(tour_length(SubSeq(order, 1, Len(order) - 1), dist),
              dist[<<order[Len(order) - 1], order[Len(order)]>>])

Reverse(s) == [i \in 1..Len(s) |-> s[Len(s) + 1 - i]]

(***************************************************************************)
(* held_karp (algos/tsp_exact.py).  The bit mask is the set of its cities. *)
(* st carries what the calls share: the lru_cache of dp, memo_stats        *)
(* ['calls'] and the number of clock readings made so far.                 *)
(***************************************************************************)
\* "time.time() - start_time > time_limit" at the reading just counted
Expired(a, st) == st.clock > a.time_limit

RECURSIVE dp(_, _, _, _), dp_loop(_, _, _, _, _, _)
\* dp(mask, i) behind lru_cache: a cached pair is returned as it was stored
dp(a, mask, i, st) ==
    IF <<mask, i>> \in DOMAIN st.cache
    THEN [r |-> st.cache[<<mask, i>>], st |-> st]
    ELSE LET s1 == [st EXCEPT !.calls = @ + 1]
             res == IF mask = {a.start, i}
                    THEN [r |-> <<a.dist[<<a.start, i>>], a.start>>, st |-> s1]
                    ELSE dp_loop(a, mask \ {i}, i, 0, <<Inf, NoCity>>, s1)
         IN  [r |-> res.r,
              st |-> [res.st EXCEPT !.cache = (<<mask, i>> :> res.r) @@ @]]

\* dp's loop keeping the last candidate instead of the least
RECURSIVE dp_loopLast(_, _, _, _, _, _)
dp_loopLast(a, prev, i, j, best, st) ==
    IF j >= a.n THEN [r |-> best, st |-> st]
    ELSE IF j \notin prev THEN dp_loopLast(a, prev, i, j + 1, best, st)
    ELSE LET sub == dp(a, prev, j, st)
             cand == Plus(sub.r[1], a.dist[<<j, i>>])
             s2 == [sub.st EXCEPT !.clock = @ + 1]
         IN  IF Expired(a, s2) THEN [r |-> <<cand, j>>, st |-> s2]
             ELSE dp_loopLast(a, prev, i, j + 1, <<cand, j>>, s2)

\* "for j in range(n)" of dp from j on: best so far is best, prev is prev_mask
dp_loop(a, prev, i, j, best, st) ==
    IF j >= a.n THEN [r |-> best, st |-> st]
    ELSE IF j \notin prev THEN dp_loop(a, prev, i, j + 1, best, st)
    ELSE LET sub == dp(a, prev, j, st)
             cand == Plus(sub.r[1], a.dist[<<j, i>>])
             b2 == IF cand < best[1] THEN <<cand, j>> ELSE best
             s2 == [sub.st EXCEPT !.clock = @ + 1]
         IN  IF Expired(a, s2) THEN [r |-> b2, st |-> s2]
             ELSE dp_loop(a, prev, i, j + 1, b2, s2)

\* "for i in range(n)" of held_karp from i on
RECURSIVE hk_ends(_, _, _, _, _)
hk_ends(a, i, best_cost, end, st) ==
    IF i >= a.n THEN [best_cost |-> best_cost, end |-> end, st |-> st]
    ELSE IF i = a.start THEN hk_ends(a, i + 1, best_cost, end, st)
    ELSE LET d == dp(a, Cities(a.n), i, st)
             better == d.r[1] < best_cost
             bc == IF better THEN d.r[1] ELSE best_cost
             e == IF better THEN i ELSE end
             s2 == [d.st EXCEPT !.clock = @ + 1]
         IN  IF Expired(a, s2) THEN [best_cost |-> bc, end |-> e, st |-> s2]
             ELSE hk_ends(a, i + 1, bc, e, s2)

\* "while i != start" of the reconstruction; 1 << i raises for i = -1
RECURSIVE hk_path(_, _, _, _, _)
hk_path(a, mask, i, order, st) ==
    IF i = a.start THEN [raised |-> FALSE, order |-> Reverse(order), st |-> st]
    ELSE IF i = NoCity THEN [raised |-> TRUE, order |-> order, st |-> st]
    ELSE LET d == dp(a, mask, i, st)
         IN  hk_path(a, mask \ {i}, d.r[2], Append(order, d.r[2]), d.st)

\* held_karp(dist, n, start, time_limit); expired tells whether the clock
\* ran out during the search
held_karp(a) ==
    LET st0 == [cache |-> [k \in {} |-> <<>>], calls |-> 0, clock |-> 0]
        s == hk_ends(a, 0, Inf, NoCity, st0)
        identity == [k \in 1..a.n |-> k - 1]
    IN  IF s.best_cost < Inf
        THEN LET p == hk_path(a, Cities(a.n), s.end, <<s.end>>, s.st)
             IN  [fn |-> "held_karp", raised |-> p.raised, order |-> p.order,
                  len |-> s.best_cost, calls |-> p.st.calls,
                  expired |-> Expired(a, s.st), fallback |-> FALSE]
        ELSE [fn |-> "held_karp", raised |-> FALSE, order |-> identity,
              len |-> tour_length(identity, a.dist), calls |-> s.st.calls,
              expired |-> Expired(a, s.st), fallback |-> TRUE]

(***************************************************************************)
(* nearest_neighbor, two_opt and nn_2opt (algos/tsp_nn_2opt.py).           *)
(***************************************************************************)
\* the cities min(unvisited, key = dist(cur, .)) can return: which of
\* several nearest ones comes first is the iteration order of a set
Nearest(dist, cur, unvisited) ==
    {j \in unvisited : \A k \in unvisited : dist[<<cur, j>>] <= dist[<<cur, k>>]}

\* "while unvisited" of nearest_neighbor: the tours it can build from here
RECURSIVE nn_from(_, _, _, _)
nn_from(dist, tour, cur, unvisited) ==
    IF unvisited = {} THEN {tour}
    ELSE UNION {nn_from(dist, Append(tour, nxt), nxt, unvisited \ {nxt}) :
                nxt \in Nearest(dist, cur, unvisited)}

nearest_neighbor(dist, n, start) == nn_from(dist, <<start>>, start, Cities(n) \ {start})

\* the pairs (i, j) of two_opt's double loop, as positions from 1, at which
\* "new_segment < old_segment"
Improving(best, dist) ==
    {p \in (2 .. (Len(best) - 2)) \X (3 .. (Len(best) - 1)) :
        /\ p[1] < p[2]
        /\ Plus(dist[<<best[p[1] - 1], best[p[2]]>>], dist[<<best[p[1]], best[p[2] + 1]>>])
             < Plus(dist[<<best[p[1] - 1], best[p[1]]>>], dist[<<best[p[2]], best[p[2] + 1]>>])}

\* the first of them in loop order
FirstImproving(best, dist) ==
    CHOOSE p \in Improving(best, dist) :
        \A q \in Improving(best, dist) :
            p[1] < q[1] \/ (p[1] = q[1] /\ p[2] <= q[2])

\* best[i:j+1] = reversed(best[i:j+1])
ReverseSegment(best, p) ==
    [k \in 1..Len(best) |-> IF p[1] <= k /\ k <= p[2] THEN best[p[1] + p[2] - k] ELSE best[k]]

\* the while loop of two_opt, entered with improved = True after swaps swaps
\* and clock readings of the clock
RECURSIVE two_opt_loop(_, _, _, _, _, _)
two_opt_loop(best, dist, swaps, clock, max_swaps, max_time) ==
    IF swaps >= max_swaps THEN best
    ELSE IF clock + 1 > max_time THEN best
    ELSE IF Improving(best, dist) = {} THEN best
    ELSE two_opt_loop(ReverseSegment(best, FirstImproving(best, dist)), dist,
                      swaps + 1, clock + 1, max_swaps, max_time)

two_opt(tour, dist, max_swaps, max_time) == two_opt_loop(tour, dist, 0, 0, max_swaps, max_time)

\* nn_2opt on the tour nn that nearest_neighbor returned; the assertion
\* "improved_len <= nn_len + 1e-6" raises when it fails (lengths are whole
\* numbers here, so the tolerance decides nothing)
nn_2opt_on(nn, dist, max_swaps, max_time) ==
    LET improved == two_opt(nn, dist, max_swaps, max_time)
        improved_len == tour_length(improved, dist)
    IN  [fn |-> "nn_2opt", raised |-> ~(improved_len <= tour_length(nn, dist)),
         order |-> improved, len |-> improved_len, nn |-> nn]

nn_2opt(dist, n, start, max_swaps, max_time) ==
    {nn_2opt_on(nn, dist, max_swaps, max_time) : nn \in nearest_neighbor(dist, n, start)}

DefaultMaxSwaps == 1000    \* max_swaps of two_opt and nn_2opt

(***************************************************************************)
(* The exact solver beside the local search: one instance, each solver     *)
(* called once on it.                                                       *)
(***************************************************************************)
IdleSim ==
    /\ now = 0
    /\ queue = <<>>
    /\ users = <<>>
    /\ put_queue = <<>>
    /\ phase = "idle"
    /\ bot_tours = <<>>
    /\ proc = <<>>
    /\ stats = InitStats
    /\ log = <<>>
    /\ IdleReplan

Called(f) == \E k \in 1..Len(out) : out[k].fn = f
ResultOf(f) == out[CHOOSE k \in 1..Len(out) : out[k].fn = f]

InitExact ==
    /\ \E n \in 1..MaxN : \E d \in Dists(n) : \E s \in Cities(n) : \E tl \in TimeLimits :
          inp = [dist |-> d, n |-> n, start |-> s, time_limit |-> tl]
    /\ out = <<>>
    /\ ga = <<>>
    /\ alo = <<>>
    /\ IdleObjects
    /\ IdleSim

\* held_karp(dist, n, start, time_limit)
CallHeldKarp ==
    /\ ~Called("held_karp")
    /\ out' = Append(out, held_karp(inp))
    /\ UNCHANGED <<inp, ga, alo, notSolvers>>

\* nn_2opt(dist, n, start) with the default budgets; how many readings of
\* the clock fall within max_time = 1.0 is the machine's
CallNn2opt ==
    /\ ~Called("nn_2opt")
    /\ \E mt \in TimeLimits :
         \E r \in nn_2opt(inp.dist, inp.n, inp.start, DefaultMaxSwaps, mt) :
            out' = Append(out, r)
    /\ UNCHANGED <<inp, ga, alo, notSolvers>>

NextExact ==
    \/ CallHeldKarp
    \/ CallNn2opt

SpecExact == InitExact /\ [][NextExact]_vars

\* C13: held_karp returns an order that is a permutation of 0..n-1 and
\* begins with start, whatever the distances and the time limit, the
\* identity fallback included.
C13_HeldKarpOrder ==
    Called("held_karp") =>
        LET r == ResultOf("held_karp")
        IN  /\ ~r.raised
            /\ IsPermutation(r.order, inp.n)
            /\ r.order[1] = inp.start

Symmetric(dist) == \A p \in DOMAIN dist : dist[p] = dist[<<p[2], p[1]>>]

\* C18: on a symmetric instance that held_karp solves before its time limit
\* is over, the length held_karp returns is at most the length nn_2opt
\* returns for the same distances, n and start.
C18_ExactNotLongerThanLocal ==
    (Called("held_karp") /\ Called("nn_2opt")) =>
        LET hk == ResultOf("held_karp")
            nn == ResultOf("nn_2opt")
        IN  (Symmetric(inp.dist) /\ ~hk.expired) => hk.len <= nn.len

\* C18: both solvers have run on a symmetric instance of four cities,
\* held_karp within its limit, and the exact tour is strictly shorter
C18_Witness ==
    /\ Called("held_karp") /\ Called("nn_2opt")
    /\ Symmetric(inp.dist) /\ inp.n = 4
    /\ ~ResultOf("held_karp").expired /\ ~ResultOf("held_karp").fallback
    /\ ResultOf("held_karp").len < ResultOf("nn_2opt").len

(***************************************************************************)
(* hybrid_nn_2opt (algos/hybrids.py) and the local search on its own.      *)
(***************************************************************************)
MaxSwaps == 1               \* largest max_swaps tried below the default
HybridMaxStarts == 3        \* kw.get('max_nn_starts', 3)
HybridMaxSwaps == 3000      \* kw.get('max_swaps', 3000)

None == <<>>                \* best_nn_tour = None

\* start_points of hybrid_nn_2opt, cut to max_nn_starts
StartPoints(n, start, max_nn_starts) ==
    LET s1 == <<start>>
        mid_point == n \div 2
        quarter_point == n \div 4
        s2 == IF n > 2 /\ mid_point # start THEN Append(s1, mid_point) ELSE s1
        s3 == IF n > 4 /\ quarter_point # start /\ quarter_point # mid_point
              THEN Append(s2, quarter_point) ELSE s2
    IN  SubSeq(s3, 1, IF Len(s3) < max_nn_starts THEN Len(s3) ELSE max_nn_starts)

\* "for sp in start_points" from the k-th point on: the tours best_nn_tour
\* can end as
RECURSIVE BestNN(_, _, _, _, _, _)
BestNN(dist, n, sps, k, best_nn_tour, best_nn_len) ==
    IF k > Len(sps) THEN {best_nn_tour}
    ELSE UNION {IF tour_length(nn_tour, dist) < best_nn_len
                THEN BestNN(dist, n, sps, k + 1, nn_tour, tour_length(nn_tour, dist))
                ELSE BestNN(dist, n, sps, k + 1, best_nn_tour, best_nn_len) :
                nn_tour \in nearest_neighbor(dist, n, sps[k])}

hybrid_nn_2opt(dist, n, start, max_nn_starts, max_swaps, max_time) ==
    LET found == BestNN(dist, n, StartPoints(n, start, max_nn_starts), 1, None, Inf)
        firsts == UNION {IF t = None THEN nearest_neighbor(dist, n, start) ELSE {t} : t \in found}
    IN  {LET improved_tour == two_opt(t, dist, max_swaps, max_time)
         IN  [fn |-> "hybrid_nn_2opt", raised |-> FALSE, order |-> improved_tour,
              len |-> tour_length(improved_tour, dist), nn |-> t] : t \in firsts}

\* every order of the n cities
Tours(n) == {t \in [1..n -> Cities(n)] : \A i, j \in 1..n : i # j => t[i] # t[j]}

SwapLimits == (0 .. MaxSwaps) \cup {DefaultMaxSwaps}

InitLocal ==
    /\ \E n \in 1..MaxN : \E d \in Dists(n) : \E s \in Cities(n) :
          inp = [dist |-> d, n |-> n, start |-> s]
    /\ out = <<>>
    /\ ga = <<>>
    /\ alo = <<>>
    /\ IdleObjects
    /\ IdleSim

\* two_opt(tour, dist, max_swaps, max_time) on any tour of the cities
CallTwoOpt ==
    /\ out = <<>>
    /\ \E tour \in Tours(inp.n) : \E ms \in SwapLimits : \E mt \in TimeLimits :
          out' = <<[fn |-> "two_opt", raised |-> FALSE, tour |-> tour,
                    order |-> two_opt(tour, inp.dist, ms, mt)]>>
    /\ UNCHANGED <<inp, ga, alo, notSolvers>>

\* hybrid_nn_2opt(dist, n, start) with its default keywords
CallHybrid ==
    /\ out = <<>>
    /\ \E mt \in TimeLimits :
         \E r \in hybrid_nn_2opt(inp.dist, inp.n, inp.start, HybridMaxStarts, HybridMaxSwaps, mt) :
            out' = <<r>>
    /\ UNCHANGED <<inp, ga, alo, notSolvers>>

NextLocal ==
    \/ CallTwoOpt
    \/ CallNn2opt
    \/ CallHybrid

SpecLocal == InitLocal /\ [][NextLocal]_vars

\* C14: hybrid_nn_2opt returns an order that is a permutation of 0..n-1 and
\* begins with start, whichever starting point gave the best first tour.
C14_HybridOrder ==
    Called("hybrid_nn_2opt") =>
        LET r == ResultOf("hybrid_nn_2opt")
        IN  /\ IsPermutation(r.order, inp.n)
            /\ r.order[1] = inp.start

\* C17: the tour two_opt returns is never longer than the tour it was given,
\* whatever the tour and the distances, and the assertion of nn_2opt holds.
C17_TwoOptNeverWorse ==
    /\ Called("two_opt") =>
          LET r == ResultOf("two_opt")
          IN  tour_length(r.order, inp.dist) <= tour_length(r.tour, inp.dist)
    /\ Called("nn_2opt") => ~ResultOf("nn_2opt").raised

(***************************************************************************)
(* ga_tsp (algos/tsp_ga.py).  Python lists are objects: P, parents,        *)
(* children and best hold references into heap, so that a list mutated in  *)
(* place changes for every holder.  The draws of the random generators, a  *)
(* function of the seed, are free choices.                                  *)
(***************************************************************************)
MaxPop == 2           \* largest population
MaxGens == 2          \* largest number of generations

\* the distances of n cities set in some order along a line, as the matrix
\* of the tests is
LineDists(n) ==
    {[p \in Cities(n) \X Cities(n) |->
         IF x[p[1]] >= x[p[2]] THEN x[p[1]] - x[p[2]] ELSE x[p[2]] - x[p[1]]] :
     x \in {y \in [Cities(n) -> Cities(n)] : \A i, j \in Cities(n) : i # j => y[i] # y[j]}}

Pops == {q \in 2..MaxPop : q % 2 = 0}

\* mk_ind: [start] + a shuffle of base[1:]
Individuals(n, start) ==
    {<<start>> \o mid : mid \in {t \in [1..(n - 1) -> 1..(n - 1)] :
                                     \A i, j \in 1..(n - 1) : i # j => t[i] # t[j]}}

\* sorted(random.sample(range(1, n-1), 2)), as the positions a < b counted
\* from 0; none is drawn for n < 4
Cuts(n) == IF n < 4 THEN {<<0, 0>>}
           ELSE {c \in (1..(n - 2)) \X (1..(n - 2)) : c[1] < c[2]}

\* what mutate_swap draws: no mutation, or two positions to swap
Swaps(n) == {<<0, 0>>} \cup (IF n < 4 THEN {} ELSE Cuts(n))

\* ox_crossover(p1, p2) with the cut c; ok is FALSE where "fill[j]" raises
\* IndexError
ox_crossover(p1, p2, c) ==
    LET n == Len(p1)
        a == c[1]
        b == c[2]
        kept == {p1[k] : k \in (a + 1)..b}
        fill == SelectSeq(p2, LAMBDA x : x \notin kept)
    IN  IF n < 4 THEN [ok |-> TRUE, child |-> p1]
        ELSE IF Len(fill) < n - (b - a) THEN [ok |-> FALSE, child |-> <<>>]
        ELSE [ok |-> TRUE,
              child |-> [k \in 1..n |-> IF a + 1 <= k /\ k <= b THEN p1[k]
                                        ELSE IF k <= a THEN fill[k]
                                        ELSE fill[k - (b - a)]]]

\* mutate_swap(p, pm) with the draw m, on the list itself
mutate_swap(p, m) ==
    IF m = <<0, 0>> \/ Len(p) < 4 THEN p
    ELSE [p EXCEPT ![m[1] + 1] = p[m[2] + 1], ![m[2] + 1] = p[m[1] + 1]]

\* length(order, dist)
length(order, dist) == tour_length(order, dist)

\* lexicographic order of lists, as Python compares them
RECURSIVE ListLess(_, _)
ListLess(s, t) ==
    IF s = <<>> THEN t # <<>>
    ELSE IF t = <<>> THEN FALSE
    ELSE IF s[1] # t[1] THEN s[1] < t[1]
    ELSE ListLess(Tail(s), Tail(t))

\* min(zip(scores, P))[1]: the reference with the least (score, list) pair
MinScored(heap, P, scores) ==
    P[CHOOSE k \in 1..Len(P) :
          \A m \in 1..Len(P) :
              \/ scores[k] < scores[m]
              \/ scores[k] = scores[m] /\ ~ListLess(heap[P[m]], heap[P[k]])]

\* the body of "for i in range(0, pop, 2)" for the parents c1, c2 and the
\* draws ch; the new lists are put on the heap
PairStep(heap, c1, c2, ch) ==
    IF ~ch.cross
    THEN LET h1 == [heap EXCEPT ![c1] = mutate_swap(@, ch.m1)]
             h2 == [h1 EXCEPT ![c2] = mutate_swap(@, ch.m2)]
         IN  [ok |-> TRUE, heap |-> h2, c1 |-> c1, c2 |-> c2]
    ELSE LET x1 == ox_crossover(heap[c1], heap[c2], ch.cut1)
             x2 == ox_crossover(heap[c2], x1.child, ch.cut2)
         IN  IF ~x1.ok \/ ~x2.ok THEN [ok |-> FALSE, heap |-> heap, c1 |-> c1, c2 |-> c2]
             ELSE [ok |-> TRUE,
                   heap |-> heap \o <<mutate_swap(x1.child, ch.m1), mutate_swap(x2.child, ch.m2)>>,
                   c1 |-> Len(heap) + 1, c2 |-> Len(heap) + 2]

Draws(n) == [cross : BOOLEAN, cut1 : Cuts(n), cut2 : Cuts(n), m1 : Swaps(n), m2 : Swaps(n)]

\* the crossover loop from the k-th pair on
RECURSIVE Breed(_, _, _, _, _)
Breed(heap, parents, chs, k, children) ==
    IF 2 * k > Len(parents) THEN [ok |-> TRUE, heap |-> heap, children |-> children]
    ELSE LET r == PairStep(heap, parents[2 * k - 1], parents[2 * k], chs[k])
         IN  IF ~r.ok THEN [ok |-> FALSE, heap |-> heap, children |-> children]
             ELSE Breed(r.heap, parents, chs, k + 1, children \o <<r.c1, r.c2>>)

\* the lists still referenced, renumbered: those of P, then best
RECURSIVE Compact(_, _, _, _)
Compact(heap, refs, k, acc) ==
    IF k > Len(refs) THEN acc
    ELSE IF \E m \in 1..Len(acc.old) : acc.old[m] = refs[k]
         THEN Compact(heap, refs, k + 1, acc)
         ELSE Compact(heap, refs, k + 1,
                      [old |-> Append(acc.old, refs[k]), heap |-> Append(acc.heap, heap[refs[k]])])

NewRef(c, r) == CHOOSE m \in 1..Len(c.old) : c.old[m] = r

MinOf(a, b) == IF a < b THEN a ELSE b

RECURSIVE MinScore(_)
MinScore(scores) ==
    IF Len(scores) = 1 THEN scores[1] ELSE MinOf(scores[1], MinScore(Tail(scores)))

InitGA ==
    /\ \E n \in 1..MaxN : \E d \in LineDists(n) : \E s \in Cities(n) :
         \E q \in Pops : \E g \in 0..MaxGens :
            inp = [dist |-> d, n |-> n, start |-> s, pop |-> q, gens |-> g]
    /\ out = <<>>
    /\ ga = [pc |-> "new"]
    /\ alo = <<>>
    /\ IdleObjects
    /\ IdleSim

\* lines 37-48: the first population, its scores and best
GaPopulate ==
    /\ ga.pc = "new"
    /\ \E P0 \in [1..inp.pop -> Individuals(inp.n, inp.start)] :
         LET P == [k \in 1..inp.pop |-> k]
             scores == [k \in 1..inp.pop |-> length(P0[k], inp.dist)]
         IN  ga' = [pc |-> "loop", heap |-> P0, P |-> P, scores |-> scores,
                    best |-> MinScored(P0, P, scores), gen |-> 0,
                    seen |-> MinScore(scores), tracked |-> <<MinScore(scores)>>]
    /\ UNCHANGED <<inp, out, alo, notSolvers>>

\* what "P[i] if scores[i] < scores[j] else P[j]" can append for some
\* draw of i and j
Tournament(P, scores) ==
    {IF scores[i] < scores[j] THEN P[i] ELSE P[j] : i, j \in 1..Len(P)}

\* lines 67-71 on the children and heap the crossover loop left
Evaluate(heap, children) ==
    LET scores == [k \in 1..Len(children) |-> length(heap[children[k]], inp.dist)]
        cur_best == MinScored(heap, children, scores)
        best == IF length(heap[cur_best], inp.dist) < length(heap[ga.best], inp.dist)
                THEN cur_best ELSE ga.best
        c == Compact(heap, Append(children, best), 1, [old |-> <<>>, heap |-> <<>>])
    IN  [pc |-> "loop", heap |-> c.heap,
         P |-> [k \in 1..Len(children) |-> NewRef(c, children[k])],
         scores |-> scores, best |-> NewRef(c, best), gen |-> ga.gen + 1,
         seen |-> MinOf(ga.seen, MinScore(scores)),
         tracked |-> Append(ga.tracked, length(heap[best], inp.dist))]

\* lines 50-71: one generation
GaGeneration ==
    /\ ga.pc = "loop"
    /\ ga.gen < inp.gens
    /\ \E parents \in [1..inp.pop -> Tournament(ga.P, ga.scores)] :
       \E chs \in [1..(inp.pop \div 2) -> Draws(inp.n)] :
       \E r \in {Breed(ga.heap, parents, chs, 1, <<>>)} :
           ga' = IF r.ok THEN Evaluate(r.heap, r.children)
                 ELSE [ga EXCEPT !.pc = "raised"]
    /\ UNCHANGED <<inp, out, alo, notSolvers>>

\* line 73
GaReturn ==
    /\ ga.pc = "loop"
    /\ ga.gen = inp.gens
    /\ ga' = [ga EXCEPT !.pc = "returned"]
    /\ out' = <<[fn |-> "ga_tsp", raised |-> FALSE, order |-> ga.heap[ga.best],
                 len |-> length(ga.heap[ga.best], inp.dist)]>>
    /\ UNCHANGED <<inp, alo, notSolvers>>

NextGA ==
    \/ GaPopulate
    \/ GaGeneration
    \/ GaReturn

SpecGA == InitGA /\ [][NextGA]_vars

StartsAtStart(t) == IsPermutation(t, inp.n) /\ t[1] = inp.start

\* C15: every individual of every population of ga_tsp, and the order it
\* returns, is a permutation of 0..n-1 with start first; no step raises.
C15_IndividualsArePermutations ==
    /\ ga.pc # "raised"
    /\ ga.pc \in {"loop", "returned"} =>
          \A k \in 1..Len(ga.P) : StartsAtStart(ga.heap[ga.P[k]])
    /\ Called("ga_tsp") => StartsAtStart(ResultOf("ga_tsp").order)

\* C19: the length of the tracked best never increases from one generation
\* to the next, and the returned length is at most every score any
\* population was given.
C19_BestNeverWorsens ==
    /\ ga.pc \in {"loop", "returned"} =>
          \A k \in 1..(Len(ga.tracked) - 1) : ga.tracked[k + 1] <= ga.tracked[k]
    /\ Called("ga_tsp") => ResultOf("ga_tsp").len <= ga.seen

(***************************************************************************)
(* alo_tsp and AntLionOptimization (algos/tsp_alo.py).  The draws of the   *)
(* two random generators are free choices; whether the clock is past the   *)
(* budget at a check is the machine's.                                      *)
(***************************************************************************)
MaxAloSize == 6       \* n_ants * n_cities at most
MaxIters == 2         \* largest n_iterations

\* time_budget_ms: 0 for None and for 0, which "if time_budget_ms and ..."
\* treats alike, 1 for a positive budget
Budgets == {0, 1}

\* calculate_tour_length: the closed tour
calculate_tour_length(tour, dist) ==
    Plus(tour_length(tour, dist), dist[<<tour[Len(tour)], tour[1]>>])

\* generate_random_tour
RandomTours(n, start) == {t \in Tours(n) : t[1] = start}

\* tournament_selection(k = 3): the least fit of some min(k, n_ants)
\* candidates, any of them on a tie
tournament_selection(fitness) ==
    LET n_ants == Len(fitness)
        k == IF 3 < n_ants THEN 3 ELSE n_ants
    IN  UNION {{i \in c : \A j \in c : fitness[i] <= fitness[j]} :
               c \in {d \in SUBSET (1..n_ants) : Cardinality(d) = k}}

\* roulette_wheel_selection: every index has a positive probability; an
\* infinite fitness makes a probability NaN and numpy raise (no index)
roulette_wheel_selection(fitness) ==
    IF \E i \in 1..Len(fitness) : fitness[i] >= Inf THEN {} ELSE 1..Len(fitness)

\* "for i in range(1, len(new_ant))" of adaptive_walk from position i
\* (counted from 0) on: each position is left or swapped with some j
RECURSIVE Mutations(_, _)
Mutations(new_ant, i) ==
    IF i >= Len(new_ant) THEN {new_ant}
    ELSE Mutations(new_ant, i + 1)
         \cup UNION {Mutations([new_ant EXCEPT ![i + 1] = new_ant[j + 1],
                                               ![j + 1] = new_ant[i + 1]], i + 1) :
                     j \in 1..(Len(new_ant) - 1)}

\* the reversals two_opt_improve tries, as positions from 0, that shorten
\* the closed tour
AloImproving(best_tour, dist) ==
    {p \in (1 .. (Len(best_tour) - 2)) \X (2 .. (Len(best_tour) - 1)) :
        /\ p[1] < p[2]
        /\ calculate_tour_length(ReverseSegment(best_tour, <<p[1] + 1, p[2] + 1>>), dist)
             < calculate_tour_length(best_tour, dist)}

RECURSIVE two_opt_improve(_, _)
two_opt_improve(tour, dist) ==
    IF AloImproving(tour, dist) = {} THEN tour
    ELSE LET p == CHOOSE x \in AloImproving(tour, dist) :
                      \A y \in AloImproving(tour, dist) :
                          x[1] < y[1] \/ (x[1] = y[1] /\ x[2] <= y[2])
         IN  two_opt_improve(ReverseSegment(tour, <<p[1] + 1, p[2] + 1>>), dist)

\* adaptive_walk: the new ants it can return; none where the selection raises
adaptive_walk(ant_lions, fitness, dist) ==
    LET walked == UNION {Mutations(ant_lions[l], 1) :
                         l \in tournament_selection(fitness) \cup roulette_wheel_selection(fitness)}
    IN  walked \cup {two_opt_improve(t, dist) : t \in walked}

\* update_ant_lions
update_ant_lions(a, ants, ant_fitness) ==
    [a EXCEPT !.ant_lions = [i \in 1..Len(ants) |->
                                IF ant_fitness[i] < a.ant_lion_fitness[i]
                                THEN ants[i] ELSE a.ant_lions[i]],
              !.ant_lion_fitness = [i \in 1..Len(ants) |->
                                       IF ant_fitness[i] < a.ant_lion_fitness[i]
                                       THEN ant_fitness[i] ELSE a.ant_lion_fitness[i]],
              !.ants = ants, !.ant_fitness = ant_fitness]

\* lines 163-166
TrackBest(a) ==
    LET current_best_idx == CHOOSE i \in 1..Len(a.ant_lions) :
                               /\ \A j \in 1..Len(a.ant_lions) :
                                     a.ant_lion_fitness[i] <= a.ant_lion_fitness[j]
                               /\ \A j \in 1..(i - 1) :
                                     a.ant_lion_fitness[i] < a.ant_lion_fitness[j]
    IN  IF a.ant_lion_fitness[current_best_idx] < a.best_fitness
        THEN [a EXCEPT !.best_fitness = a.ant_lion_fitness[current_best_idx],
                       !.best_tour = a.ant_lions[current_best_idx]]
        ELSE a

InitALO ==
    /\ \E n \in 1..MaxN : \E na \in 1..MaxAloSize : \E d \in LineDists(n) :
       \E s \in Cities(n) : \E it \in 0..MaxIters : \E tb \in Budgets :
          /\ na * n <= MaxAloSize
          /\ inp = [dist_func |-> d, n_cities |-> n, start_city |-> s, n_ants |-> na,
                    n_iterations |-> it, time_budget_ms |-> tb]
    /\ out = <<>>
    /\ ga = <<>>
    /\ alo = [pc |-> "new"]
    /\ IdleObjects
    /\ IdleSim

\* lines 141-147: initialize_population, best_tour = None
AloPopulate ==
    /\ alo.pc = "new"
    /\ \E lions \in [1..inp.n_ants -> RandomTours(inp.n_cities, inp.start_city)] :
       \E ants \in [1..inp.n_ants -> RandomTours(inp.n_cities, inp.start_city)] :
          alo' = [pc |-> "loop", ant_lions |-> lions,
                  ant_lion_fitness |-> [i \in 1..inp.n_ants |->
                                           calculate_tour_length(lions[i], inp.dist_func)],
                  ants |-> ants,
                  ant_fitness |-> [i \in 1..inp.n_ants |->
                                      calculate_tour_length(ants[i], inp.dist_func)],
                  best_tour |-> None, best_fitness |-> Inf, iteration |-> 0]
    /\ UNCHANGED <<inp, out, ga, notSolvers>>

\* lines 149-166: one iteration whose budget check passes
AloIterate ==
    /\ alo.pc = "loop"
    /\ alo.iteration < inp.n_iterations
    /\ LET walks == adaptive_walk(alo.ant_lions, alo.ant_lion_fitness, inp.dist_func)
       IN  IF walks = {} THEN alo' = [alo EXCEPT !.pc = "raised"]
           ELSE \E ants \in [1..inp.n_ants -> walks] :
                \E fit \in {[i \in 1..inp.n_ants |-> calculate_tour_length(ants[i], inp.dist_func)]} :
                   alo' = [TrackBest(update_ant_lions(alo, ants, fit))
                             EXCEPT !.iteration = @ + 1]
    /\ UNCHANGED <<inp, out, ga, notSolvers>>

\* line 168, after the last iteration or after the break of line 152
AloReturn ==
    /\ alo.pc = "loop"
    /\ alo.iteration = inp.n_iterations \/ inp.time_budget_ms # 0
    /\ alo' = [alo EXCEPT !.pc = "returned"]
    /\ out' = <<[fn |-> "alo_tsp", raised |-> FALSE, order |-> alo.best_tour,
                 len |-> alo.best_fitness, iterations |-> alo.iteration]>>
    /\ UNCHANGED <<inp, ga, notSolvers>>

NextALO ==
    \/ AloPopulate
    \/ AloIterate
    \/ AloReturn

SpecALO == InitALO /\ [][NextALO]_vars

\* C16: alo_tsp never raises and returns a tour, a permutation of the cities
\* beginning at start_city, with its finite length, also when no iteration
\* has run.
C16_AloReturnsTour ==
    /\ alo.pc # "raised"
    /\ Called("alo_tsp") =>
          LET r == ResultOf("alo_tsp")
          IN  /\ r.order # None
              /\ IsPermutation(r.order, inp.n_cities)
              /\ r.order[1] = inp.start_city
              /\ r.len < Inf

(***************************************************************************)
(* dijkstra and astar (sim/routing.py) on a Grid (sim/grid.py).  A cell is *)
(* <<x, y>>.  Costs are in ten-thousandths, so that 1.0 and 1.4142 and     *)
(* their sums are whole numbers.                                           *)
(***************************************************************************)
MaxWidth == 4         \* widest grid
MaxHeight == 3        \* tallest grid
MaxObstacles == 1     \* blocked cells of a grid

Straight == 10000     \* w = 1.0
Diagonal == 14142     \* w = 1.4142

\* manhattan(a, b), in the unit of the costs
manhattan(a, b) == (Abs(a[1] - b[1]) + Abs(a[2] - b[2])) * Straight

\* octile(a, b) = (dx + dy) + (1.4142 - 2) * min(dx, dy)
octile(a, b) ==
    LET dx == Abs(a[1] - b[1])
        dy == Abs(a[2] - b[2])
    IN  (dx + dy) * Straight + (Diagonal - 2 * Straight) * MinOf(dx, dy)

GridCells(grid) == (0 .. (grid.width - 1)) \X (0 .. (grid.height - 1))

\* bounds that take in the far edges
in_boundsInclusive(grid, p) == 0 <= p[1] /\ p[1] <= grid.width /\ 0 <= p[2] /\ p[2] <= grid.height

\* Grid.in_bounds(p)
in_bounds(grid, p) == 0 <= p[1] /\ p[1] < grid.width /\ 0 <= p[2] /\ p[2] < grid.height

\* Grid.passable(p)
passable(grid, p) == p \notin grid.obstacles

\* the steps of Grid.neighbors
Steps(grid) ==
    LET steps4 == {<<1, 0>>, <<0 - 1, 0>>, <<0, 1>>, <<0, 0 - 1>>}
        steps8 == steps4 \cup {<<1, 1>>, <<1, 0 - 1>>, <<0 - 1, 1>>, <<0 - 1, 0 - 1>>}
    IN  IF grid.diag THEN steps8 ELSE steps4

\* neighbors without the obstacle test
neighborsInBounds(grid, p) ==
    {q \in {<<p[1] + d[1], p[2] + d[2]>> : d \in Steps(grid)} : in_bounds(grid, q)}

\* Grid.neighbors(p)
neighbors(grid, p) ==
    {q \in {<<p[1] + d[1], p[2] + d[2]>> : d \in Steps(grid)} :
        in_bounds(grid, q) /\ passable(grid, q)}

\* w of an edge u -> v
EdgeCost(u, v) == IF v[1] = u[1] \/ v[2] = u[2] THEN Straight ELSE Diagonal

\* the order of the heap's tuples (f, g, u); dijkstra's (d, u) has f = d
EntryLess(e1, e2) ==
    \/ e1.f < e2.f
    \/ e1.f = e2.f /\ e1.g < e2.g
    \/ e1.f = e2.f /\ e1.g = e2.g /\ e1.u[1] < e2.u[1]
    \/ e1.f = e2.f /\ e1.g = e2.g /\ e1.u[1] = e2.u[1] /\ e1.u[2] < e2.u[2]

\* heapq.heappop's result
HeapMin(pq) == CHOOSE e \in pq : \A o \in pq : o = e \/ EntryLess(e, o)

\* the heuristic astar uses; dijkstra is the same loop with none
Heuristic(kind, v, goal) ==
    IF kind = "octile" THEN octile(v, goal)
    ELSE IF kind = "manhattan" THEN manhattan(v, goal)
    ELSE 0

\* no entry of the prev dict
NoPos == <<0 - 1, 0 - 1>>

\* the while loop of astar (lines 59-74) and of dijkstra (lines 28-43); the
\* dicts dist and prev hold Inf and NoPos where they have no entry
RECURSIVE Search(_, _, _, _, _, _, _)
Search(grid, goal, kind, pq, dist, prev, nodes_expanded) ==
    IF pq = {} THEN [dist |-> dist, prev |-> prev, nodes_expanded |-> nodes_expanded]
    ELSE LET e == HeapMin(pq)
             rest == pq \ {e}
             better == {v \in neighbors(grid, e.u) : e.g + EdgeCost(e.u, v) < dist[v]}
         IN  IF e.u = goal
             THEN [dist |-> dist, prev |-> prev, nodes_expanded |-> nodes_expanded + 1]
             ELSE IF e.g # dist[e.u]
             THEN Search(grid, goal, kind, rest, dist, prev, nodes_expanded + 1)
             ELSE Search(grid, goal, kind,
                         rest \cup {[f |-> e.g + EdgeCost(e.u, v) + Heuristic(kind, v, goal),
                                     g |-> e.g + EdgeCost(e.u, v), u |-> v] : v \in better},
                         [v \in DOMAIN dist |-> IF v \in better THEN e.g + EdgeCost(e.u, v)
                                                ELSE dist[v]],
                         [v \in DOMAIN prev |-> IF v \in better THEN e.u ELSE prev[v]],
                         nodes_expanded + 1)

\* a search from start
SearchFrom(grid, start, goal, kind) ==
    Search(grid, goal, kind,
           {[f |-> Heuristic(kind, start, goal), g |-> 0, u |-> start]},
           [v \in GridCells(grid) \cup {start} |-> IF v = start THEN 0 ELSE Inf],
           [v \in GridCells(grid) \cup {start} |-> NoPos], 0)

\* reconstruct_path(came_from, start, goal), built backwards from cur
\* reconstruct_path without "path.reverse()"
RECURSIVE reconstruct_pathNoReverse(_, _, _, _)
reconstruct_pathNoReverse(came_from, start, cur, path) ==
    IF cur = start THEN path
    ELSE reconstruct_pathNoReverse(came_from, start, came_from[cur],
                                   Append(path, came_from[cur]))

RECURSIVE reconstruct_path(_, _, _, _)
reconstruct_path(came_from, start, cur, path) ==
    IF cur = start THEN Reverse(path)
    ELSE reconstruct_path(came_from, start, came_from[cur], Append(path, came_from[cur]))

\* lines 45-47 and 76-78: what is returned after the loop
SearchResult(fn, r, start, goal) ==
    IF goal \notin DOMAIN r.dist \/ r.dist[goal] >= Inf
    THEN [fn |-> fn, path |-> <<>>, cost |-> Inf, nodes_expanded |-> r.nodes_expanded]
    ELSE [fn |-> fn, path |-> reconstruct_path(r.prev, start, goal, <<goal>>),
          cost |-> r.dist[goal], nodes_expanded |-> r.nodes_expanded]

\* dijkstra(grid, start, goal)
dijkstra(grid, start, goal) ==
    SearchResult("dijkstra", SearchFrom(grid, start, goal, "none"), start, goal)

\* astar(grid, start, goal, None, diag_allowed)
astar(grid, start, goal, diag_allowed) ==
    [diag_allowed |-> diag_allowed] @@
    SearchResult("astar",
                 SearchFrom(grid, start, goal, IF diag_allowed THEN "octile" ELSE "manhattan"),
                 start, goal)

\* the sets of at most k of the cells
RECURSIVE UpTo(_, _)
UpTo(cells, k) ==
    IF k = 0 THEN {{}}
    ELSE UpTo(cells, k - 1) \cup UNION {{o \cup {c} : c \in cells} : o \in UpTo(cells, k - 1)}

InitRouting ==
    /\ \E w \in 1..MaxWidth : \E h \in 1..MaxHeight : \E dg \in BOOLEAN :
       \E obs \in UpTo((0 .. (w - 1)) \X (0 .. (h - 1)), MaxObstacles) :
       \E a, b \in (0 .. w) \X (0 .. h) :
          inp = [grid |-> [width |-> w, height |-> h, obstacles |-> obs, diag |-> dg],
                 start |-> a, goal |-> b]
    /\ out = <<>>
    /\ ga = <<>>
    /\ alo = <<>>
    /\ IdleObjects
    /\ IdleSim

CallDijkstra ==
    /\ ~Called("dijkstra")
    /\ out' = Append(out, dijkstra(inp.grid, inp.start, inp.goal))
    /\ UNCHANGED <<inp, ga, alo, notSolvers>>

\* astar with the default heuristic and either diag_allowed
CallAstar ==
    /\ ~Called("astar")
    /\ \E diag_allowed \in BOOLEAN :
          out' = Append(out, astar(inp.grid, inp.start, inp.goal, diag_allowed))
    /\ UNCHANGED <<inp, ga, alo, notSolvers>>

NextRouting ==
    \/ CallDijkstra
    \/ CallAstar

SpecRouting == InitRouting /\ [][NextRouting]_vars

\* C20: whenever the goal is reachable, astar with its default heuristic
\* returns the cost dijkstra returns, on 4- and 8-connected grids and for
\* either diag_allowed.
C20_AstarCostIsDijkstraCost ==
    (Called("astar") /\ Called("dijkstra")) =>
        (ResultOf("dijkstra").cost < Inf =>
            ResultOf("astar").cost = ResultOf("dijkstra").cost)

(***************************************************************************)
(* The cached distance functions: dist of pairwise_distance_builder        *)
(* (exp/run_matrix.py, exp/run_multi_depot.py) and DistanceService         *)
(* (sim/distance_service.py).  Waypoint indices count from 0.              *)
(***************************************************************************)
NumWaypoints == 2     \* waypoints handed to a builder

EmptyDict == [k \in {} |-> 0]

MaxOf(a, b) == IF a < b THEN b ELSE a

\* Python's order of tuples
PosLess(a, b) == a[1] < b[1] \/ (a[1] = b[1] /\ a[2] < b[2])

\* key = (min(i, j), max(i, j)) of the builders' dist
IndexKey(i, j) == <<MinOf(i, j), MaxOf(i, j)>>

\* a key that keeps the order of the arguments
PositionKeyOrdered(a, b) == <<a, b>>

\* key = (min(a, b), max(a, b)) of get_distance
PositionKey(a, b) == IF PosLess(b, a) THEN <<b, a>> ELSE <<a, b>>

\* dist(i, j) of pairwise_distance_builder on the cache c: the value, the
\* cache afterwards and whether astar ran
dist(c, g, waypoints, i, j) ==
    IF i = j THEN [value |-> 0, cache |-> c, searched |-> FALSE]
    ELSE IF IndexKey(i, j) \in DOMAIN c
    THEN [value |-> c[IndexKey(i, j)], cache |-> c, searched |-> FALSE]
    ELSE LET L == astar(g, waypoints[i + 1], waypoints[j + 1], TRUE).cost
         IN  [value |-> L, cache |-> (IndexKey(i, j) :> L) @@ c, searched |-> TRUE]

\* DistanceService.get_distance(a, b, diag_allowed) on the cache c
get_distance(c, g, a, b, diag_allowed) ==
    IF a = b THEN [value |-> 0, cache |-> c, searched |-> FALSE]
    ELSE IF PositionKey(a, b) \in DOMAIN c
    THEN [value |-> c[PositionKey(a, b)], cache |-> c, searched |-> FALSE]
    ELSE LET cost == astar(g, a, b, diag_allowed).cost
         IN  [value |-> cost, cache |-> (PositionKey(a, b) :> cost) @@ c, searched |-> TRUE]

\* the double loop of pairwise_distances from the pair (i, j) on: the matrix
\* entries written and the cache afterwards
RECURSIVE FillMatrix(_, _, _, _, _, _, _)
FillMatrix(c, g, waypoints, diag_allowed, i, j, dist_matrix) ==
    LET n == Len(waypoints)
    IN  IF i >= n THEN [dist_matrix |-> dist_matrix, cache |-> c]
        ELSE IF j >= n THEN FillMatrix(c, g, waypoints, diag_allowed, i + 1, i + 2, dist_matrix)
        ELSE LET r == get_distance(c, g, waypoints[i + 1], waypoints[j + 1], diag_allowed)
             IN  FillMatrix(r.cache, g, waypoints, diag_allowed, i, j + 1,
                            [dist_matrix EXCEPT ![<<i, j>>] = r.value, ![<<j, i>>] = r.value])

\* DistanceService.pairwise_distances(waypoints, diag_allowed): dist_fn as
\* its matrix
pairwise_distances(c, g, waypoints, diag_allowed) ==
    FillMatrix(c, g, waypoints, diag_allowed, 0, 1,
               [p \in Cities(Len(waypoints)) \X Cities(Len(waypoints)) |-> 0])

InitDistance ==
    /\ \E w \in 1..MaxWidth : \E h \in 1..MaxHeight : \E dg \in BOOLEAN :
       \E obs \in UpTo((0 .. (w - 1)) \X (0 .. (h - 1)), MaxObstacles) :
       \E wps \in [1..NumWaypoints -> ((0 .. (w - 1)) \X (0 .. (h - 1))) \ obs] :
       \E kind \in {"builder", "service"} :
          inp = [kind |-> kind, waypoints |-> wps,
                 grid |-> [width |-> w, height |-> h, obstacles |-> obs, diag |-> dg]]
    /\ out = [ret |-> EmptyDict, dist_fn |-> EmptyDict]
    /\ cache = EmptyDict
    /\ grid_obj = <<>>
    /\ opt = <<>>
    /\ exec = <<>>
    /\ ga = <<>>
    /\ alo = <<>>
    /\ IdleSim

\* a call dist(i, j) of the function the builder returned
CallDist ==
    /\ inp.kind = "builder"
    /\ \E i, j \in Cities(Len(inp.waypoints)) :
       \E r \in {dist(cache, inp.grid, inp.waypoints, i, j)} :
          /\ cache' = r.cache
          /\ out' = [out EXCEPT !.ret = (<<i, j>> :> [value |-> r.value, searched |-> r.searched]) @@ @]
    /\ UNCHANGED <<inp, ga, alo, grid_obj, opt, exec, kernelVars, colVars, repVars>>

\* a call get_distance(waypoints[i], waypoints[j], diag_allowed)
CallGetDistance ==
    /\ inp.kind = "service"
    /\ \E i, j \in Cities(Len(inp.waypoints)) : \E diag_allowed \in BOOLEAN :
       \E r \in {get_distance(cache, inp.grid, inp.waypoints[i + 1], inp.waypoints[j + 1],
                              diag_allowed)} :
          /\ cache' = r.cache
          /\ out' = [out EXCEPT !.ret = (<<i, j>> :> [value |-> r.value, searched |-> r.searched]) @@ @]
    /\ UNCHANGED <<inp, ga, alo, grid_obj, opt, exec, kernelVars, colVars, repVars>>

\* a call pairwise_distances(waypoints, diag_allowed)
CallPairwiseDistances ==
    /\ inp.kind = "service"
    /\ \E diag_allowed \in BOOLEAN :
       \E r \in {pairwise_distances(cache, inp.grid, inp.waypoints, diag_allowed)} :
          /\ cache' = r.cache
          /\ out' = [out EXCEPT !.dist_fn = r.dist_matrix]
    /\ UNCHANGED <<inp, ga, alo, grid_obj, opt, exec, kernelVars, colVars, repVars>>

NextDistance ==
    \/ CallDist
    \/ CallGetDistance
    \/ CallPairwiseDistances

SpecDistance == InitDistance /\ [][NextDistance]_vars

\* C21: whatever calls were made before and in whatever argument order,
\* dist(i, j) equals dist(j, i), and dist(i, i) is 0 and runs no search; so
\* for get_distance and for the matrix of pairwise_distances.
C21_DistanceSymmetric ==
    /\ \A p \in DOMAIN out.ret :
          /\ <<p[2], p[1]>> \in DOMAIN out.ret =>
                out.ret[p].value = out.ret[<<p[2], p[1]>>].value
          /\ p[1] = p[2] => out.ret[p].value = 0 /\ ~out.ret[p].searched
    /\ \A p \in DOMAIN out.dist_fn :
          /\ out.dist_fn[p] = out.dist_fn[<<p[2], p[1]>>]
          /\ p[1] = p[2] => out.dist_fn[p] = 0

\* C21: dist was called with both argument orders for two waypoints apart,
\* one call ran the search and the other took the cached value
C21_Witness ==
    /\ inp.kind = "builder"
    /\ <<0, 1>> \in DOMAIN out.ret /\ <<1, 0>> \in DOMAIN out.ret
    /\ out.ret[<<0, 1>>].searched # out.ret[<<1, 0>>].searched
    /\ out.ret[<<0, 1>>].value > Straight
    /\ out.ret[<<0, 1>>].value < Inf

(***************************************************************************)
(* Reachability on a grid, stated without the searches: a step leads to an *)
(* adjacent cell that is in bounds and no obstacle.                        *)
(***************************************************************************)
\* q is next to p under the grid's connectivity
NextTo(grid, p, q) ==
    LET dx == Abs(p[1] - q[1])
        dy == Abs(p[2] - q[2])
    IN  IF grid.diag THEN dx <= 1 /\ dy <= 1 /\ dx + dy > 0 ELSE dx + dy = 1

FreeCell(grid, q) == q \in GridCells(grid) /\ q \notin grid.obstacles

RECURSIVE Closure(_, _)
Closure(grid, seen) ==
    LET more == {q \in GridCells(grid) :
                    /\ q \notin seen
                    /\ FreeCell(grid, q)
                    /\ \E p \in seen : NextTo(grid, p, q)}
    IN  IF more = {} THEN seen ELSE Closure(grid, seen \cup more)

Reachable(grid, start, goal) == goal \in Closure(grid, {start})

\* C22: astar and dijkstra return the empty path and cost infinity exactly
\* when the goal differs from start and no sequence of steps into in-bounds
\* cells that are no obstacles leads from start to it; otherwise they return
\* a non-empty path and a finite cost.
C22_EmptyPathIffUnreachable ==
    \A k \in DOMAIN out :
        out[k].fn \in {"astar", "dijkstra"} =>
            IF Reachable(inp.grid, inp.start, inp.goal)
            THEN out[k].path # <<>> /\ out[k].cost < Inf
            ELSE out[k].path = <<>> /\ out[k].cost = Inf

\* C22: both searches gave up on a goal that is a free cell of the grid, cut
\* off from a free start
C22_Witness ==
    /\ Called("astar") /\ Called("dijkstra")
    /\ FreeCell(inp.grid, inp.start) /\ FreeCell(inp.grid, inp.goal)
    /\ inp.start # inp.goal
    /\ ResultOf("astar").path = <<>> /\ ResultOf("astar").cost = Inf
    /\ ResultOf("dijkstra").path = <<>> /\ ResultOf("dijkstra").cost = Inf

(***************************************************************************)
(* A Grid object under its methods: passable, neighbors and                *)
(* add_rect_obstacle (sim/grid.py).  grid_obj is the object, inp.grid the  *)
(* arguments of its construction, out the latest call with its result.     *)
(***************************************************************************)
MaxGridWidth == 3     \* widest grid object
MaxGridHeight == 2    \* tallest grid object

\* positions asked about: the rectangle and one step around it
Around(grid) == ((0 - 1) .. grid.width) \X ((0 - 1) .. grid.height)

\* Grid.add_rect_obstacle(x0, y0, x1, y1): the obstacles afterwards
add_rect_obstacle(grid, x0, y0, x1, y1) ==
    [grid EXCEPT !.obstacles =
        @ \cup {q \in (x0 .. x1) \X (y0 .. y1) : in_bounds(grid, q)}]

InitGrid ==
    /\ \E w \in 1..MaxGridWidth : \E h \in 1..MaxGridHeight : \E dg \in BOOLEAN :
       \E obs \in UpTo((0 .. (w - 1)) \X (0 .. (h - 1)), MaxObstacles) :
          /\ inp = [grid |-> [width |-> w, height |-> h, obstacles |-> obs, diag |-> dg]]
          /\ grid_obj = inp.grid
    /\ out = <<>>
    /\ cache = <<>>
    /\ opt = <<>>
    /\ exec = <<>>
    /\ ga = <<>>
    /\ alo = <<>>
    /\ IdleSim

CallPassable ==
    /\ \E p \in Around(grid_obj) :
          out' = <<[fn |-> "passable", p |-> p, value |-> passable(grid_obj, p)]>>
    /\ UNCHANGED <<inp, ga, alo, cache, grid_obj, opt, exec, kernelVars, colVars, repVars>>

CallNeighbors ==
    /\ \E p \in Around(grid_obj) :
          out' = <<[fn |-> "neighbors", p |-> p, value |-> neighbors(grid_obj, p)]>>
    /\ UNCHANGED <<inp, ga, alo, cache, grid_obj, opt, exec, kernelVars, colVars, repVars>>

CallAddRectObstacle ==
    /\ \E x0 \in (0 - 1) .. (grid_obj.width - 1) : \E x1 \in x0 .. grid_obj.width :
       \E y0 \in (0 - 1) .. (grid_obj.height - 1) : \E y1 \in y0 .. grid_obj.height :
          /\ grid_obj' = add_rect_obstacle(grid_obj, x0, y0, x1, y1)
          /\ out' = <<[fn |-> "add_rect_obstacle", p |-> NoPos, value |-> None]>>
    /\ UNCHANGED <<inp, ga, alo, cache, opt, exec, kernelVars, colVars, repVars>>

NextGrid ==
    \/ CallPassable
    \/ CallNeighbors
    \/ CallAddRectObstacle

SpecGrid == InitGrid /\ [][NextGrid]_vars

\* C23: for every position p, inside the rectangle of the grid or outside
\* it, passable(p) is true if and only if p is in bounds and no obstacle.
C23_PassableIffInBoundsFree ==
    Called("passable") =>
        (ResultOf("passable").value <=>
            FreeCell(grid_obj, ResultOf("passable").p))

\* C24: every cell that neighbors(p) yields is in bounds, is no obstacle of
\* the grid as it is then, and is next to p: along an axis when diag is
\* false, along an axis or a diagonal when diag is true.
C24_NeighborsAreFreeAndAdjacent ==
    Called("neighbors") =>
        \A q \in ResultOf("neighbors").value :
            /\ q \in GridCells(grid_obj)
            /\ q \notin grid_obj.obstacles
            /\ NextTo(grid_obj, ResultOf("neighbors").p, q)

\* C24: neighbors was asked after add_rect_obstacle had added obstacles,
\* about a cell with an obstacle next to it, and yielded some cell
C24_Witness ==
    /\ Called("neighbors")
    /\ grid_obj.obstacles # inp.grid.obstacles
    /\ ResultOf("neighbors").value # {}
    /\ \E q \in grid_obj.obstacles \ inp.grid.obstacles :
          NextTo(grid_obj, ResultOf("neighbors").p, q)

(***************************************************************************)
(* The optimum of an instance, by trying every order.                      *)
(***************************************************************************)
\* the least open-path length over the orders of the n cities that begin
\* with start
OptimalLength(d, n, start) ==
    LET lens == {tour_length(t, d) : t \in {u \in Tours(n) : u[1] = start}}
    IN  CHOOSE m \in lens : \A l \in lens : m <= l

\* C25: when the time limit is not hit, the length held_karp returns is the
\* least open-path length over the permutations of 0..n-1 that begin with
\* start, and the order it returns is such a permutation of that length.
C25_HeldKarpOptimal ==
    Called("held_karp") =>
        LET r == ResultOf("held_karp")
        IN  ~r.expired =>
               /\ ~r.raised
               /\ r.len = OptimalLength(inp.dist, inp.n, inp.start)
               /\ StartsAtStart(r.order)
               /\ tour_length(r.order, inp.dist) = r.len

(***************************************************************************)
(* two_opt (algos/tsp_nn_2opt.py) pass by pass.  opt holds its locals;     *)
(* opt.clock counts the readings of the clock made by the loop condition,  *)
(* and max_time is the number of readings the time budget lets pass.       *)
(***************************************************************************)
\* the loop condition without "swaps < max_swaps"
ContinueAnySwaps(o, a) == o.improved /\ o.clock + 1 <= a.max_time

\* "improved and swaps < max_swaps and (time.time() - start_time) < max_time"
\* at the reading that follows o.clock readings
Continue(o, a) == o.improved /\ o.swaps < a.max_swaps /\ o.clock + 1 <= a.max_time

\* the condition reads the clock only when the tests before it hold
ClockAfter(o, a) == IF o.improved /\ o.swaps < a.max_swaps THEN o.clock + 1 ELSE o.clock

\* two_opt was called on a tour of the cities: lines 15-19
InitTwoOpt ==
    /\ \E n \in 1..MaxN : \E d \in Dists(n) :
       \E tour \in {t \in Tours(n) : t[1] = 0} :
       \E ms \in SwapLimits : \E mt \in TimeLimits :
          /\ inp = [dist |-> d, n |-> n, tour |-> tour, max_swaps |-> ms, max_time |-> mt]
          /\ opt = [pc |-> "while", best |-> tour, improved |-> TRUE, swaps |-> 0, clock |-> 0]
    /\ out = <<>>
    /\ cache = <<>>
    /\ grid_obj = <<>>
    /\ exec = <<>>
    /\ ga = <<>>
    /\ alo = <<>>
    /\ IdleSim

\* one turn of the while loop: the first improving reversal of the two for
\* loops is applied, or improved stays False
TwoOptPass ==
    /\ opt # <<>> /\ opt.pc = "while"
    /\ Continue(opt, inp)
    /\ opt' = IF Improving(opt.best, inp.dist) = {}
              THEN [opt EXCEPT !.improved = FALSE, !.clock = ClockAfter(opt, inp)]
              ELSE [opt EXCEPT !.best = ReverseSegment(@, FirstImproving(@, inp.dist)),
                               !.improved = TRUE,
                               !.swaps = @ + 1,
                               !.clock = ClockAfter(opt, inp)]
    /\ UNCHANGED <<inp, out, ga, alo, cache, grid_obj, exec, kernelVars, colVars, repVars>>

\* the loop condition fails: return best
TwoOptReturn ==
    /\ opt # <<>> /\ opt.pc = "while"
    /\ ~Continue(opt, inp)
    /\ opt' = [opt EXCEPT !.pc = "returned", !.clock = ClockAfter(opt, inp)]
    /\ out' = <<[fn |-> "two_opt", raised |-> FALSE, tour |-> inp.tour, order |-> opt.best]>>
    /\ UNCHANGED <<inp, ga, alo, cache, grid_obj, exec, kernelVars, colVars, repVars>>

NextTwoOpt ==
    \/ TwoOptPass
    \/ TwoOptReturn

SpecTwoOpt == InitTwoOpt /\ [][NextTwoOpt]_vars

\* a running call goes on running
SpecTwoOptLive == SpecTwoOpt /\ WF_vars(TwoOptPass) /\ WF_vars(TwoOptReturn)

\* the time budget was over at the last reading of the clock
TimeElapsed == opt.clock > inp.max_time

\* two_opt never made more than max_swaps reversals, and it returned only
\* with no improving reversal left, with max_swaps reversals made, or with
\* the time budget over
TwoOptStopsForAReason ==
    /\ opt.swaps <= inp.max_swaps
    /\ opt.pc = "returned" =>
          /\ \/ Improving(opt.best, inp.dist) = {}
             \/ opt.swaps = inp.max_swaps
             \/ TimeElapsed
          /\ Called("two_opt")
          /\ ResultOf("two_opt").order = opt.best
          /\ opt.best = two_opt(inp.tour, inp.dist, inp.max_swaps, inp.max_time)

\* C26: two_opt always terminates; it stops only when no reversal of a
\* segment i..j strictly lowers the cost of the two affected edges, when
\* max_swaps reversals have been applied, or when the time budget is over;
\* it never applies more than max_swaps reversals.
C26_TwoOptTerminates == []TwoOptStopsForAReason /\ <>(opt.pc = "returned")

\* C26: two_opt returned after a reversal because its swap budget was used
\* up, with time to spare
C26_Witness ==
    /\ opt.pc = "returned"
    /\ opt.swaps = inp.max_swaps /\ opt.swaps > 0
    /\ opt.best # inp.tour
    /\ ~TimeElapsed

(***************************************************************************)
(* Termination of simulate_multi_bot_execution.                            *)
(***************************************************************************)
\* env.run() processes one event after the other for as long as there is one
SpecCollisionLive == SpecCollision /\ WF_vars(NextCollision)

\* every position of every path of the tour is a free cell
OverFreeCells(tour) ==
    \A l \in 1..Len(tour) : \A k \in 1..Len(tour[l]) : tour[l][k] \in Cells

\* the moves a tour asks for: one per cell after the first of each path
RECURSIVE TourMoves(_)
TourMoves(tour) ==
    IF tour = <<>> THEN 0
    ELSE (IF Head(tour) = <<>> THEN 0 ELSE Len(Head(tour)) - 1) + TourMoves(Tail(tour))

\* at the return every started bot with paths over free cells has ended its
\* last leg, has made every move of its tour and holds or awaits no cell
AllTraversed ==
    phase = "returned" =>
        \A b \in Bots :
            (Started(b) /\ OverFreeCells(bot_tours[b])) =>
                /\ proc[b].pc = "done"
                /\ proc[b].leg = Len(bot_tours[b])
                /\ proc[b].moves = TourMoves(bot_tours[b])
                /\ \A c \in Cells : ~InSeq(b, users[c]) /\ ~InSeq(b, put_queue[c])

\* C27: every run of simulate_multi_bot_execution comes to its return, and
\* by then every started agent whose paths lie over free cells has traversed
\* all cells of all its legs; no agent waits forever for a cell.
C27_AllAgentsFinish == <>(phase = "returned") /\ []AllTraversed

\* C27: the simulation returned after two started bots with paths over free
\* cells had both moved and one of them had waited for a cell
C27_Witness ==
    /\ phase = "returned"
    /\ \A b \in Bots : Started(b) /\ OverFreeCells(bot_tours[b]) /\ proc[b].moves > 0
    /\ stats.total_collisions > 0

(***************************************************************************)
(* simulate_execution and follow_path (sim/simpy_exec.py): one process     *)
(* runs the legs one after the other.  A request is known by its number;   *)
(* leaving a "with ... request() as r" block releases r, whether or not r  *)
(* is still a user of its cell.                                            *)
(***************************************************************************)
MaxExecCells == 3     \* free cells of the grid of simulate_execution
MaxPathLen == 3       \* most cells of one path
MaxLegs == 2          \* most paths in leg_paths

ExecCells == 1 .. MaxExecCells

\* the paths: every step leads to another cell
ExecPaths ==
    {q \in UNION {[1..m -> ExecCells] : m \in 0..MaxPathLen} :
        \A k \in 1..(Len(q) - 1) : q[k] # q[k + 1]}

ExecPath(x) == inp.leg_paths[x.leg]

\* the head of "for nxt in path[1:]" with cur = path[x.k]: the next cell is
\* requested, or the loop and the outer with block are left and the process
\* ends
ExecLoop(st, x, t) ==
    LET path == ExecPath(x)
    IN  IF x.k < Len(path)
        THEN [st |-> Request(st, x.next_id, path[x.k + 1], t),
              x |-> [x EXCEPT !.pc = "wait_next", !.req2 = x.next_id, !.next_id = @ + 1]]
        ELSE [st |-> [Release(st, x.req, path[1], t) EXCEPT
                         !.queue = Schedule(@, Event(t, NORMAL, "PathDone", 0))],
              x |-> [x EXCEPT !.pc = "between"]]

InitExec ==
    /\ \E n \in 0..MaxLegs : \E lp \in [1..n -> ExecPaths] : inp = [leg_paths |-> lp]
    /\ exec = [pc |-> "idle", leg |-> 0, k |-> 0, req |-> 0, req2 |-> 0, next_id |-> 1]
    /\ now = 0
    /\ queue = <<Event(0, URGENT, "ProcInit", 0)>>
    /\ users = [c \in ExecCells |-> <<>>]
    /\ put_queue = [c \in ExecCells |-> <<>>]
    /\ phase = "running"
    /\ out = <<>>
    /\ cache = <<>>
    /\ grid_obj = <<>>
    /\ opt = <<>>
    /\ ga = <<>>
    /\ alo = <<>>
    /\ bot_tours = <<>>
    /\ proc = <<>>
    /\ stats = <<>>
    /\ log = <<>>
    /\ IdleReplan

\* proc() starts, and goes on after a follow_path process has ended: the
\* next path gets its process, or proc ends
ExecNextLeg ==
    /\ HeadIs("ProcInit") \/ HeadIs("PathDone")
    /\ LET e == Head(queue)
       IN  /\ now' = e.t
           /\ IF exec.leg < Len(inp.leg_paths)
              THEN /\ queue' = Schedule(Tail(queue), Event(e.t, URGENT, "PathInit", 0))
                   /\ exec' = [exec EXCEPT !.leg = @ + 1, !.k = 0, !.pc = "between"]
              ELSE /\ queue' = Schedule(Tail(queue), Event(e.t, NORMAL, "ProcDone", 0))
                   /\ exec' = [exec EXCEPT !.pc = "done"]
    /\ UNCHANGED <<inp, out, ga, alo, cache, grid_obj, opt, users, put_queue, phase,
                   colVars, repVars>>

\* follow_path, lines 18-21: up to "yield req"
ExecPathInit ==
    /\ HeadIs("PathInit")
    /\ LET e == Head(queue) path == ExecPath(exec)
       IN  /\ now' = e.t
           /\ IF path = <<>>
              THEN /\ queue' = Schedule(Tail(queue), Event(e.t, NORMAL, "PathDone", 0))
                   /\ UNCHANGED <<users, put_queue, exec>>
              ELSE /\ SetKernel(Request(Kernel, exec.next_id, path[1], e.t))
                   /\ exec' = [exec EXCEPT !.pc = "wait_first", !.req = exec.next_id,
                                           !.next_id = @ + 1]
    /\ UNCHANGED <<inp, out, ga, alo, cache, grid_obj, opt, phase, colVars, repVars>>

\* the request waited on is granted: after req, "cur = first" and the head
\* of the loop; after req2, "yield env.timeout(step_time)"
ExecGranted ==
    /\ HeadIs("Granted")
    /\ LET e == Head(queue)
       IN  /\ now' = e.t
           /\ IF exec.pc = "wait_first"
              THEN \E r \in {ExecLoop(Kernel, [exec EXCEPT !.k = 1], e.t)} :
                      /\ SetKernel(r.st)
                      /\ exec' = r.x
              ELSE /\ queue' = Schedule(Tail(queue), Event(e.t + StepTime, NORMAL, "Timeout", 0))
                   /\ exec' = [exec EXCEPT !.pc = "move"]
                   /\ UNCHANGED <<users, put_queue>>
    /\ UNCHANGED <<inp, out, ga, alo, cache, grid_obj, opt, phase, colVars, repVars>>

\* the travel time is over, lines 27-28: "users[0]" of a cell nobody holds
\* raises IndexError, which leaves both with blocks and ends env.run();
\* otherwise the first user of cur is released, cur becomes nxt, the inner
\* with block is left and the loop goes on
ExecTimeout ==
    /\ HeadIs("Timeout")
    /\ LET e == Head(queue) path == ExecPath(exec)
           cur == path[exec.k]
           nxt == path[exec.k + 1]
       IN  /\ now' = e.t
           /\ IF users[cur] = <<>>
              THEN /\ SetKernel(Release(Release(Kernel, exec.req2, nxt, e.t),
                                        exec.req, path[1], e.t))
                   /\ exec' = [exec EXCEPT !.pc = "raised"]
                   /\ phase' = "raised"
                   /\ out' = <<[fn |-> "simulate_execution", raised |-> TRUE, value |-> None]>>
              ELSE /\ \E r \in {ExecLoop(Release(Release(Kernel, Head(users[cur]), cur, e.t),
                                                 exec.req2, nxt, e.t),
                                         [exec EXCEPT !.k = @ + 1], e.t)} :
                         /\ SetKernel(r.st)
                         /\ exec' = r.x
                   /\ UNCHANGED <<phase, out>>
    /\ UNCHANGED <<inp, ga, alo, cache, grid_obj, opt, colVars, repVars>>

\* a Release event is processed: _trigger_put on its cell
ExecReleaseEv ==
    /\ HeadIs("Release")
    /\ LET e == Head(queue)
       IN  /\ now' = e.t
           /\ SetKernel(TriggerPut(Kernel, e.who, e.t))
    /\ UNCHANGED <<inp, out, ga, alo, cache, grid_obj, opt, exec, phase, colVars, repVars>>

\* the event of the finished proc: nobody waits on it
ExecProcDone ==
    /\ HeadIs("ProcDone")
    /\ now' = Head(queue).t
    /\ queue' = Tail(queue)
    /\ UNCHANGED <<inp, out, ga, alo, cache, grid_obj, opt, exec, users, put_queue, phase,
                   colVars, repVars>>

\* env.run() returns when no event is left; "return env.now"
ExecReturn ==
    /\ phase = "running"
    /\ queue = <<>>
    /\ phase' = "returned"
    /\ out' = <<[fn |-> "simulate_execution", raised |-> FALSE, value |-> now]>>
    /\ UNCHANGED <<inp, ga, alo, cache, grid_obj, opt, exec, now, queue, users, put_queue,
                   colVars, repVars>>

NextExec ==
    \/ ExecNextLeg
    \/ ExecPathInit
    \/ ExecGranted
    \/ ExecTimeout
    \/ ExecReleaseEv
    \/ ExecProcDone
    \/ ExecReturn

SpecExec == InitExec /\ [][NextExec]_vars

\* C28: in follow_path of simpy_exec every release of the previous cell
\* finds a hold of the agent on that cell (the holder list is not empty),
\* for paths of any length, and simulate_execution returns step_time times
\* the total number of moves.
C28_ReleaseOwnHoldAndTime ==
    /\ phase # "raised"
    /\ phase = "returned" =>
          ResultOf("simulate_execution").value = StepTime * TourMoves(inp.leg_paths)

\* C29: in run_simulation_scenario no robot is ever granted a cell that is
\* in the blocked set at the instant of the grant, be it a next cell that
\* passed the blocked check or the first cell of a planned or replanned path.
C29_NeverGrantedBlockedCell ==
    \A o \in OrderIds :
        \A i \in 1..Len(hist[o].grants) : ~hist[o].grants[i].blocked

\* the sum of the step weights of a path
RECURSIVE PathWeight(_)
PathWeight(path) ==
    IF Len(path) <= 1 THEN 0
    ELSE EdgeCost(path[1], path[2]) + PathWeight(Tail(path))

\* a path from start to goal over free cells, every step to a cell next to
\* the one before, whose step weights add up to cost
ValidPath(grid, start, goal, path, cost) ==
    /\ path[1] = start
    /\ path[Len(path)] = goal
    /\ \A k \in 1..Len(path) : FreeCell(grid, path[k])
    /\ \A k \in 1..(Len(path) - 1) : NextTo(grid, path[k], path[k + 1])
    /\ cost = PathWeight(path)

\* C30: every non-empty path that astar or dijkstra returns for a passable
\* start begins at start, ends at goal, holds only in-bounds cells that are
\* no obstacles, steps between adjacent cells under the grid's connectivity,
\* and the cost returned with it is the sum of its step weights.
C30_PathIsValid ==
    \A k \in DOMAIN out :
        (/\ out[k].fn \in {"astar", "dijkstra"}
         /\ FreeCell(inp.grid, inp.start)
         /\ out[k].path # <<>>) =>
            ValidPath(inp.grid, inp.start, inp.goal, out[k].path, out[k].cost)

\* C30: astar and dijkstra both returned a path with a diagonal step around
\* an obstacle
C30_Witness ==
    /\ Called("astar") /\ Called("dijkstra")
    /\ FreeCell(inp.grid, inp.start)
    /\ inp.grid.obstacles # {}
    /\ Len(ResultOf("astar").path) >= 3
    /\ Len(ResultOf("dijkstra").path) >= 3
    /\ ResultOf("astar").cost % Straight # 0
    /\ \E c \in inp.grid.obstacles : NextTo(inp.grid, inp.start, c)

====
